---------------------------- MODULE Spec2Model ----------------------------
(***************************************************************************)
(* Model of the DTU AT-command HTTP client (src/src/client.rs) with its    *)
(* parser (src/src/parser.rs, src/src/util.rs) and data types              *)
(* (src/src/types.rs).                                                     *)
(*                                                                         *)
(* One call of DtuAtHttpClient::request() is a state machine.  Every await *)
(* on the transport (write, flush, read under with_timeout) or on a timer  *)
(* is one action whose outcome the environment chooses.  Byte strings are  *)
(* sequences of byte values (ASCII codes); positions are 1-based and the   *)
(* Option<usize> result None of a search is the position 0.                *)
(***************************************************************************)
EXTENDS Integers, Sequences, FiniteSets, TLC

(***************************************************************************)
(* Byte strings of the wire protocol.                                      *)
(***************************************************************************)
ESCAPE == <<43, 43, 43>>                                   \* b"+++"
CRLF == <<13, 10>>                                         \* b"\r\n"
PROBE == <<65, 84, 13, 10>>                                \* b"AT\r\n"
SPACE == <<32>>                                            \* b" "
AT_S == <<65, 84, 43, 83>>                                 \* "AT+S"
AT_WKMOD == <<65, 84, 43, 87, 75, 77, 79, 68>>             \* "AT+WKMOD"
EQ_HTTP == <<61, 72, 84, 84, 80>>                          \* "=HTTP"
AT_HTPTP == <<65, 84, 43, 72, 84, 80, 84, 80>>             \* "AT+HTPTP"
AT_HTPURL == <<65, 84, 43, 72, 84, 80, 85, 82, 76>>        \* "AT+HTPURL"
AT_HTPHD == <<65, 84, 43, 72, 84, 80, 72, 68>>             \* "AT+HTPHD"
AT_HTPPK == <<65, 84, 43, 72, 84, 80, 80, 75>>             \* "AT+HTPPK"
AT_HTPTIM == <<65, 84, 43, 72, 84, 80, 84, 73, 77>>        \* "AT+HTPTIM"
AT_HTPDT == <<65, 84, 43, 72, 84, 80, 68, 84>>             \* "AT+HTPDT"
AT_DEBUG_ON == <<65, 84, 43, 68, 69, 66, 85, 71, 61, 79, 78>>  \* "AT+DEBUG=ON"
AT_CREG == <<65, 84, 43, 67, 82, 69, 71, 63>>              \* "AT+CREG?"
AT_RUNST == <<65, 84, 43, 82, 85, 78, 83, 84, 63>>         \* "AT+RUNST?"
EQ == <<61>>                                               \* "="
HD_SEP == <<91, 48, 68, 93, 91, 48, 65, 93>>               \* "[0D][0A]"
COLON_SP == <<58, 32>>                                     \* ": "
AUTH_BEARER == <<65, 117, 116, 104, 111, 114, 105, 122, 97, 116, 105, 111, 110,
                 58, 32, 66, 101, 97, 114, 101, 114, 32>>  \* "Authorization: Bearer "
OK_CRLF_CRLF == <<13, 10, 79, 75, 13, 10>>                 \* b"\r\nOK\r\n"
LF_OK_LF == <<10, 79, 75, 10>>                             \* b"\nOK\n"
OK_CRLF == <<79, 75, 13, 10>>                              \* b"OK\r\n"
OK_LF == <<79, 75, 10>>                                    \* b"OK\n"
FS_HTTP_OK == <<70, 83, 64, 72, 84, 84, 80, 32, 79, 75, 58>>           \* b"FS@HTTP OK:"
FS_HTTP_FAIL == <<70, 83, 64, 72, 84, 84, 80, 32, 70, 65, 73, 76, 58>> \* b"FS@HTTP FAIL:"
ERR_COLON == <<69, 82, 82, 58>>                            \* b"ERR:"
ERROR == <<69, 82, 82, 79, 82>>                            \* b"ERROR"
FS_INFO == <<70, 83, 64, 72, 84, 84, 80, 32, 73, 78, 70, 79, 32, 67, 79, 68, 69, 58>>
FS_SUCCESS == <<70, 83, 64, 72, 84, 84, 80, 32, 83, 85, 67, 67, 69, 83, 83, 32,
                67, 79, 68, 69, 58>>
FS_REDIRECT == <<70, 83, 64, 72, 84, 84, 80, 32, 82, 69, 68, 73, 82, 69, 67, 84, 32,
                 67, 79, 68, 69, 58>>
FS_CLIENT == <<70, 83, 64, 72, 84, 84, 80, 32, 67, 76, 73, 69, 78, 84, 32, 69, 82,
               82, 79, 82, 32, 67, 79, 68, 69, 58>>
FS_SERVER == <<70, 83, 64, 72, 84, 84, 80, 32, 83, 69, 82, 86, 69, 82, 32, 69, 82,
               82, 79, 82, 32, 67, 79, 68, 69, 58>>
HTTP1 == <<72, 84, 84, 80, 47, 49, 46>>                    \* b"HTTP/1."
CRLFCRLF == <<13, 10, 13, 10>>                             \* b"\r\n\r\n"
LFLF == <<10, 10>>                                         \* b"\n\n"
FS_AT == <<70, 83, 64>>                                    \* b"FS@"
CRLF_FS == <<13, 10, 70, 83, 64>>                          \* b"\r\nFS@"
LF_FS == <<10, 70, 83, 64>>                                \* b"\nFS@"
CONTENT_LENGTH == <<67, 111, 110, 116, 101, 110, 116, 45, 76, 101, 110, 103, 116,
                    104, 58>>                              \* b"Content-Length:"

(***************************************************************************)
(* Slices and Option values.                                               *)
(***************************************************************************)
None == [some |-> FALSE, v |-> 0]
Some(x) == [some |-> TRUE, v |-> x]
NoneBytes == [some |-> FALSE, v |-> <<>>]

Min(S) == CHOOSE x \in S : \A y \in S : x <= y
Max(S) == CHOOSE x \in S : \A y \in S : x >= y

\* &s[i..] with 1-based i: the suffix that starts at position i.
From(s, i) == SubSeq(s, i, Len(s))
\* &s[..n]: the first n elements.
Take(s, n) == SubSeq(s, 1, n)

starts_with(s, p) == Len(s) >= Len(p) /\ Take(s, Len(p)) = p
ends_with(s, p) == Len(s) >= Len(p) /\ From(s, Len(s) - Len(p) + 1) = p

\* util.rs find_subslice: position of the first window equal to needle, 0 for None.
find_subslice(haystack, needle) ==
    IF needle = <<>> \/ Len(haystack) < Len(needle) THEN 0
    ELSE LET hits == {i \in 1..(Len(haystack) - Len(needle) + 1) :
                         SubSeq(haystack, i, i + Len(needle) - 1) = needle}
         IN IF hits = {} THEN 0 ELSE Min(hits)

\* iter().position(pred): first position whose byte is in set, 0 for None.
position(s, set) ==
    LET hits == {i \in 1..Len(s) : s[i] \in set}
    IN IF hits = {} THEN 0 ELSE Min(hits)

\* iter().rposition(pred): last position whose byte is in set, 0 for None.
rposition(s, set) ==
    LET hits == {i \in 1..Len(s) : s[i] \in set}
    IN IF hits = {} THEN 0 ELSE Max(hits)

(***************************************************************************)
(* parser.rs: marker detection.                                            *)
(***************************************************************************)
\* contains_ok without the two ends_with tests.
contains_ok_delimited_only(buf) ==
    \/ find_subslice(buf, OK_CRLF_CRLF) # 0
    \/ find_subslice(buf, LF_OK_LF) # 0
    \/ find_subslice(buf, FS_HTTP_OK) # 0

contains_ok(buf) ==
    \/ find_subslice(buf, OK_CRLF_CRLF) # 0
    \/ find_subslice(buf, LF_OK_LF) # 0
    \/ ends_with(buf, OK_CRLF)
    \/ ends_with(buf, OK_LF)
    \/ find_subslice(buf, FS_HTTP_OK) # 0

contains_http_ready(buf) == find_subslice(buf, FS_HTTP_OK) # 0

contains_http_fail(buf) == find_subslice(buf, FS_HTTP_FAIL) # 0

contains_at_error(buf) ==
    find_subslice(buf, ERR_COLON) # 0 \/ find_subslice(buf, ERROR) # 0

(***************************************************************************)
(* Decimal rendering of the integer arguments of format!().                *)
(***************************************************************************)
RECURSIVE to_decimal(_)
to_decimal(n) ==
    IF n < 10 THEN <<48 + n>> ELSE to_decimal(n \div 10) \o <<48 + (n % 10)>>

(***************************************************************************)
(* parser.rs build_head_line.  headers is a sequence of [name, value]      *)
(* records, bearer_token an Option of bytes.  The result is                *)
(* [ok |-> TRUE, line |-> bytes] or [ok |-> FALSE, line |-> <<>>].         *)
(***************************************************************************)
HeadLineLimit == 256

RECURSIVE join_headers(_, _)
join_headers(headers, i) ==
    IF i > Len(headers) THEN <<>>
    ELSE (IF i > 1 THEN HD_SEP ELSE <<>>)
         \o headers[i].name \o COLON_SP \o headers[i].value
         \o join_headers(headers, i + 1)

\* build_head_line that rejects a line of exactly the limit.
build_head_line_strict_limit(headers, bearer_token) ==
    IF headers = <<>> /\ ~bearer_token.some THEN [ok |-> TRUE, line |-> <<>>]
    ELSE IF \E i \in 1..Len(headers) : headers[i].name = <<>>
         THEN [ok |-> FALSE, line |-> <<>>]
    ELSE LET hs == join_headers(headers, 1)
             tk == IF bearer_token.some
                   THEN (IF headers # <<>> THEN HD_SEP ELSE <<>>)
                        \o AUTH_BEARER \o bearer_token.v
                   ELSE <<>>
             body == hs \o tk
             out == IF body # <<>> THEN body \o HD_SEP ELSE body
         IN IF Len(out) >= HeadLineLimit THEN [ok |-> FALSE, line |-> <<>>]
            ELSE [ok |-> TRUE, line |-> out]

build_head_line(headers, bearer_token) ==
    IF headers = <<>> /\ ~bearer_token.some THEN [ok |-> TRUE, line |-> <<>>]
    ELSE IF \E i \in 1..Len(headers) : headers[i].name = <<>>
         THEN [ok |-> FALSE, line |-> <<>>]
    ELSE LET hs == join_headers(headers, 1)
             tk == IF bearer_token.some
                   THEN (IF headers # <<>> THEN HD_SEP ELSE <<>>)
                        \o AUTH_BEARER \o bearer_token.v
                   ELSE <<>>
             body == hs \o tk
             out == IF body # <<>> THEN body \o HD_SEP ELSE body
         IN IF Len(out) > HeadLineLimit THEN [ok |-> FALSE, line |-> <<>>]
            ELSE [ok |-> TRUE, line |-> out]

(***************************************************************************)
(* parser.rs: status code parsing.                                         *)
(***************************************************************************)
U16_MAX == 65535
\* usize::MAX, capped at the largest integer the checker represents.
USIZE_MAX == 2147483647

is_ascii_digit(b) == b >= 48 /\ b <= 57
is_ascii_whitespace(b) == b \in {32, 9, 10, 12, 13}
to_ascii_lowercase(b) == IF b >= 65 /\ b <= 90 THEN b + 32 ELSE b

\* value.saturating_mul(10).saturating_add(d) for an unsigned type of maximum max.
saturating_push(value, d, max) ==
    IF value > (max - d) \div 10 THEN max ELSE value * 10 + d

\* The loop of parse_u16_from_prefix / parse_usize_from_prefix from position i:
\* bytes before the first digit are skipped, the first non-digit after it ends it.
RECURSIVE parse_from_prefix(_, _, _, _, _)
parse_from_prefix(data, i, started, value, max) ==
    IF i > Len(data) THEN (IF started THEN Some(value) ELSE None)
    ELSE IF is_ascii_digit(data[i])
         THEN parse_from_prefix(data, i + 1, TRUE,
                                saturating_push(value, data[i] - 48, max), max)
    ELSE IF started THEN Some(value)
    ELSE parse_from_prefix(data, i + 1, FALSE, value, max)

parse_u16_from_prefix(data) == parse_from_prefix(data, 1, FALSE, 0, U16_MAX)
parse_usize_from_prefix(data) == parse_from_prefix(data, 1, FALSE, 0, USIZE_MAX)

\* parse_fs_http_code that splits the line on its first comma.
parse_fs_http_code_first_comma(raw, marker) ==
    LET idx == find_subslice(raw, marker) IN
    IF idx = 0 THEN None
    ELSE LET sub == From(raw, idx)
             le == position(sub, {13, 10})
             line == IF le = 0 THEN sub ELSE Take(sub, le - 1)
             comma == position(line, {44})
         IN IF comma = 0 THEN None
            ELSE parse_u16_from_prefix(From(line, comma + 1))

parse_fs_http_code(raw, marker) ==
    LET idx == find_subslice(raw, marker) IN
    IF idx = 0 THEN None
    ELSE LET sub == From(raw, idx)
             le == position(sub, {13, 10})
             line == IF le = 0 THEN sub ELSE Take(sub, le - 1)
             comma == rposition(line, {44})
         IN IF comma = 0 THEN None
            ELSE parse_u16_from_prefix(From(line, comma + 1))

CODE_MARKERS == <<FS_INFO, FS_SUCCESS, FS_REDIRECT, FS_CLIENT, FS_SERVER>>

\* first_code_marker trying the markers in the reverse order.
first_code_marker_reversed(raw) ==
    LET hits == {k \in 1..Len(CODE_MARKERS) : parse_fs_http_code(raw, CODE_MARKERS[k]).some}
    IN IF hits = {} THEN 0 ELSE Max(hits)

\* the first marker of CODE_MARKERS, in order, whose code parses (0 when none does)
first_code_marker(raw) ==
    LET hits == {k \in 1..Len(CODE_MARKERS) : parse_fs_http_code(raw, CODE_MARKERS[k]).some}
    IN IF hits = {} THEN 0 ELSE Min(hits)

parse_status_code(raw) ==
    LET k == first_code_marker(raw) IN
    IF k # 0 THEN parse_fs_http_code(raw, CODE_MARKERS[k])
    ELSE LET idx == find_subslice(raw, HTTP1) IN
         IF idx = 0 THEN None
         ELSE LET sub == From(raw, idx)
                  space == position(sub, {32})
              IN IF space = 0 THEN None
                 ELSE parse_u16_from_prefix(From(sub, space + 1))

(***************************************************************************)
(* types.rs: body extraction.                                              *)
(***************************************************************************)
\* find_header_boundary that knows the CRLF CRLF separator only.
find_header_boundary_crlf_only(http) ==
    LET a == find_subslice(http, CRLFCRLF)
    IN IF a # 0 THEN [at |-> a, sep |-> 4] ELSE [at |-> 0, sep |-> 0]

\* find_header_boundary: [at |-> position of the separator (0 for None), sep |-> its length].
find_header_boundary(http) ==
    LET a == find_subslice(http, CRLFCRLF)
        b == find_subslice(http, LFLF)
    IN IF a # 0 THEN [at |-> a, sep |-> 4]
       ELSE IF b # 0 THEN [at |-> b, sep |-> 2]
       ELSE [at |-> 0, sep |-> 0]

\* eq_ascii_case_prefix comparing the bytes as they are.
eq_case_sensitive_prefix(line, prefix) ==
    /\ Len(line) >= Len(prefix)
    /\ \A i \in 1..Len(prefix) : line[i] = prefix[i]

eq_ascii_case_prefix(line, prefix) ==
    /\ Len(line) >= Len(prefix)
    /\ \A i \in 1..Len(prefix) :
          to_ascii_lowercase(line[i]) = to_ascii_lowercase(prefix[i])

\* skip while the byte at j is in set.
RECURSIVE skip_while(_, _, _)
skip_while(s, j, set) ==
    IF j <= Len(s) /\ s[j] \in set THEN skip_while(s, j + 1, set) ELSE j

RECURSIVE parse_content_length_from(_, _)
parse_content_length_from(header, i) ==
    IF i > Len(header) THEN None
    ELSE LET p == position(From(header, i), {10})
             line_end == IF p = 0 THEN Len(header) + 1 ELSE i + p - 1
             line == SubSeq(header, i, line_end - 1)
         IN IF Len(line) >= 15 /\ eq_ascii_case_prefix(line, CONTENT_LENGTH)
            THEN LET j == skip_while(line, Len(CONTENT_LENGTH) + 1, {32, 9})
                 IN parse_usize_from_prefix(From(line, j))
            ELSE parse_content_length_from(header, line_end + 1)

parse_content_length(header) == parse_content_length_from(header, 1)

trim_ascii_whitespace(data) ==
    LET keep == {i \in 1..Len(data) : ~is_ascii_whitespace(data[i])}
    IN IF keep = {} THEN <<>> ELSE SubSeq(data, Min(keep), Max(keep))

\* One iteration of the marker loop of extract_urc_style_body; None is `continue`.
urc_body_for(raw, marker) ==
    LET idx == find_subslice(raw, marker) IN
    IF idx = 0 THEN NoneBytes
    ELSE LET pos0 == idx + Len(marker)
             comma_rel == position(From(raw, pos0), {44})
         IN IF comma_rel = 0 THEN NoneBytes
            ELSE LET pos1 == skip_while(raw, pos0 + comma_rel, 48..57)
                     pos == skip_while(raw, pos1, {32, 9, 13, 10})
                 IN IF pos > Len(raw) THEN NoneBytes
                    ELSE LET rest == From(raw, pos)
                             r1 == find_subslice(rest, CRLF_FS)
                             r2 == find_subslice(rest, LF_FS)
                             r3 == IF pos + 1 <= Len(raw)
                                   THEN find_subslice(From(raw, pos + 1), FS_AT)
                                   ELSE 0
                             \* end is exclusive in the source; here the last kept position
                             last == IF r1 # 0 THEN pos + r1 - 2
                                     ELSE IF r2 # 0 THEN pos + r2 - 2
                                     ELSE IF r3 # 0 THEN pos + r3 - 1
                                     ELSE Len(raw)
                             body == trim_ascii_whitespace(SubSeq(raw, pos, last))
                         IN IF body = <<>> \/ starts_with(body, FS_AT) THEN NoneBytes
                            ELSE [some |-> TRUE, v |-> body]

\* extract_urc_style_body: the first marker, in order, that yields a body
extract_urc_style_body(raw) ==
    LET hits == {k \in 1..Len(CODE_MARKERS) : urc_body_for(raw, CODE_MARKERS[k]).some}
    IN IF hits = {} THEN NoneBytes ELSE urc_body_for(raw, CODE_MARKERS[Min(hits)])

\* HttpResponse::http_body, from the second search onwards (no usable HTTP/1. header block).
http_body_fallback(raw) ==
    LET a == find_subslice(raw, CRLFCRLF)
        b == find_subslice(raw, LFLF)
    IN IF a # 0
       THEN (IF starts_with(From(raw, a + 4), FS_AT) THEN NoneBytes
             ELSE [some |-> TRUE, v |-> From(raw, a + 4)])
       ELSE IF b # 0
       THEN (IF starts_with(From(raw, b + 2), FS_AT) THEN NoneBytes
             ELSE [some |-> TRUE, v |-> From(raw, b + 2)])
       ELSE extract_urc_style_body(raw)

http_body(raw) ==
    LET http_idx == find_subslice(raw, HTTP1) IN
    IF http_idx = 0 THEN http_body_fallback(raw)
    ELSE LET http == From(raw, http_idx)
             hb == find_header_boundary(http)
         IN IF hb.at = 0 THEN http_body_fallback(raw)
            ELSE LET body == From(http, hb.at + hb.sep)
                     cl == parse_content_length(Take(http, hb.at - 1))
                 IN IF starts_with(body, FS_AT) THEN NoneBytes
                    ELSE IF cl.some
                    THEN (IF cl.v = 0 THEN [some |-> TRUE, v |-> <<>>]
                          ELSE IF Len(body) >= cl.v
                          THEN [some |-> TRUE, v |-> Take(body, cl.v)]
                          ELSE [some |-> TRUE, v |-> body])
                    ELSE IF body = <<>> THEN NoneBytes
                    ELSE [some |-> TRUE, v |-> body]

declared_content_length(raw) ==
    LET http_idx == find_subslice(raw, HTTP1) IN
    IF http_idx = 0 THEN None
    ELSE LET http == From(raw, http_idx)
             hb == find_header_boundary(http)
         IN IF hb.at = 0 THEN None
            ELSE parse_content_length(Take(http, hb.at - 1))

\* is_success that takes every response short of an error status for a success.
is_success_unless_error(status_code) == ~status_code.some \/ status_code.v < 400

\* HttpResponse::is_success on an Option<u16>
is_success(status_code) ==
    status_code.some /\ status_code.v >= 200 /\ status_code.v <= 299

(***************************************************************************)
(* types.rs: request, configuration, errors.                               *)
(***************************************************************************)
GET == <<71, 69, 84>>                                      \* "GET"
POST == <<80, 79, 83, 84>>                                 \* "POST"
BODY == <<66, 79, 68, 89>>                                 \* "BODY"
QUERY == <<81, 85, 69, 82, 89>>                            \* "QUERY"

method_as_at(m) == IF m = "Get" THEN GET ELSE POST
data_type_as_at(d) == IF d = "Body" THEN BODY ELSE QUERY

\* Result values of the client's internal functions and the DtuAtError variants.
Ok(v) == [ok |-> TRUE, err |-> "none", msg |-> "", val |-> v]
Err(e) == [ok |-> FALSE, err |-> e, msg |-> "", val |-> <<>>]
InvalidConfig(m) == [ok |-> FALSE, err |-> "InvalidConfig", msg |-> m, val |-> <<>>]
\* no send_ok_cmd / send_query_cmd result is live
NoCmdRet == [ok |-> FALSE, err |-> "none", msg |-> "", val |-> <<>>]

\* Bounds of the model.
MaxLen == 40          \* the valid max_response_len the configurations use
MaxReads == 2         \* chunks the transport delivers to one framer run
ReadLatency == 400    \* ms a transport read takes to complete with data, end-of-stream or error
MaxWriteFaults == 1   \* transport write/flush failures in one call

\* client.rs short_poll_timeout: the 800 ms clamp.
ShortPollCap == 800

\* DtuAtHttpConfig; durations in milliseconds.  The deadlines are shortened from
\* the defaults so that a polling loop is a handful of polls.
BaseConfig ==
    [channel |-> 1, request_timeout_secs |-> 10, response_filter_mask |-> 3,
     require_body_on_success |-> TRUE,
     cmd_guard_time |-> 1200, at_first_timeout |-> 2000, at_idle_timeout |-> 400,
     http_first_timeout |-> 60000, http_idle_timeout |-> 400,
     http_followup_first_timeout |-> 1200, http_followup_timeout |-> 1200,
     http_ready_timeout |-> 1200,
     max_request_attempts |-> 2,
     enable_modem_debug_urc |-> FALSE, query_link_status_before_send |-> FALSE,
     retry_payload_on_http_timeout |-> FALSE,
     post_entm_settle_time |-> 500, max_response_len |-> MaxLen,
     enable_command_probe_fallback |-> TRUE]

CfgRetry ==
    [BaseConfig EXCEPT !.retry_payload_on_http_timeout = TRUE,
                       !.require_body_on_success = FALSE,
                       !.enable_command_probe_fallback = FALSE,
                       !.max_request_attempts = 3,
                       !.channel = 4]
CfgDiag ==
    [BaseConfig EXCEPT !.enable_modem_debug_urc = TRUE,
                       !.query_link_status_before_send = TRUE,
                       !.http_ready_timeout = 800,
                       !.http_followup_timeout = 0]

\* diagnostics on, and room for no more than one b"\r\nOK\r\n"
CfgTiny == [CfgDiag EXCEPT !.max_response_len = Len(OK_CRLF_CRLF)]

\* room for one acknowledgement and two more bytes; two polls fit the ready deadline
CfgSmall == [BaseConfig EXCEPT !.max_response_len = Len(OK_CRLF_CRLF) + 2]

\* HttpRequest values.
URL == <<104, 116, 116, 112, 58, 47, 47, 97>>              \* "http://a"
HI == <<104, 105>>                                         \* b"hi"

ReqGet ==
    [method |-> "Get", url |-> URL, headers |-> <<>>, body |-> <<>>,
     bearer_token |-> NoneBytes, data_type |-> "Body"]
ReqPost ==
    [method |-> "Post", url |-> URL,
     headers |-> << [name |-> <<65>>, value |-> <<98>>] >>, body |-> HI,
     bearer_token |-> [some |-> TRUE, v |-> <<116>>], data_type |-> "Query"]
ReqNoUrl == [ReqGet EXCEPT !.url = <<>>]
ReqBadHeader == [ReqPost EXCEPT !.headers = << [name |-> <<>>, value |-> <<98>>] >>]

\* one header whose encoded line is longer than the limit
ReqLongHeader ==
    [ReqPost EXCEPT !.headers = << [name |-> <<88>>, value |-> [i \in 1..HeadLineLimit |-> 97]] >>]

\* The (configuration, request) pairs a call is started with.
Scenarios ==
    { <<BaseConfig, ReqGet>>, <<CfgRetry, ReqPost>>, <<CfgDiag, ReqGet>>,
      <<BaseConfig, ReqBadHeader>>, <<BaseConfig, ReqNoUrl>>,
      <<[BaseConfig EXCEPT !.channel = 0], ReqGet>>,
      <<[BaseConfig EXCEPT !.channel = 5], ReqPost>>,
      <<[BaseConfig EXCEPT !.max_response_len = 0], ReqGet>>,
      <<[BaseConfig EXCEPT !.channel = 0, !.max_response_len = 0], ReqNoUrl>>,
      <<CfgTiny, ReqGet>>,
      <<[CfgTiny EXCEPT !.query_link_status_before_send = FALSE], ReqGet>>,
      <<CfgSmall, ReqGet>>, <<BaseConfig, ReqLongHeader>> }

\* What one transport read may deliver (each at most the 256-byte read buffer).
RX_OK == OK_CRLF_CRLF                                       \* b"\r\nOK\r\n"
RX_ERROR == ERROR                                           \* b"ERROR"
RX_READY == FS_HTTP_OK                                      \* b"FS@HTTP OK:"
RX_READY_HEAD == <<70, 83, 64, 72, 84, 84, 80, 32>>                \* b"FS@HTTP "
RX_READY_TAIL == <<79, 75, 58>>                                    \* b"OK:"
RX_FAIL == FS_HTTP_FAIL                                     \* b"FS@HTTP FAIL:"
RX_200 == <<72, 84, 84, 80, 47, 49, 46, 49, 32, 50, 48, 48, 32, 79, 75, 13, 10,
            13, 10, 104, 105>>                              \* b"HTTP/1.1 200 OK\r\n\r\nhi"
RX_204 == <<72, 84, 84, 80, 47, 49, 46, 49, 32, 50, 48, 52, 13, 10, 13, 10>>
                                                            \* b"HTTP/1.1 204\r\n\r\n"
RX_404 == <<72, 84, 84, 80, 47, 49, 46, 49, 32, 52, 48, 52, 13, 10, 13, 10>>
                                                            \* b"HTTP/1.1 404\r\n\r\n"
RX_URC_200 == <<70, 83, 64, 72, 84, 84, 80, 32, 83, 85, 67, 67, 69, 83, 83, 32, 67,
                79, 68, 69, 58, 48, 44, 50, 48, 48, 13, 10>>
                                                            \* b"FS@HTTP SUCCESS CODE:0,200\r\n"

\* The device in command mode answers with result lines and notifications; once
\* the payload was sent it delivers the HTTP response, and after that
\* notifications and further body bytes.
AtChunks == {RX_OK, RX_ERROR, RX_READY, RX_FAIL, HI}
\* while the device restarts after AT+S, the ready notification may also arrive in two pieces
SaveChunks == AtChunks \cup {RX_READY_HEAD, RX_READY_TAIL}
HttpChunks == {RX_200, RX_204, RX_404, RX_URC_200, RX_FAIL, HI}
FollowupChunks == {RX_URC_200, RX_FAIL, HI}
RxChunks(s) ==
    IF s \in {"primary", "primary_retry"} THEN HttpChunks
    ELSE IF s = "followup" THEN FollowupChunks
    ELSE IF s = "SAVE" THEN SaveChunks
    ELSE AtChunks

READ_BUF_LEN == 256

(***************************************************************************)
(* client.rs: pure parts of the request sequencer.                         *)
(***************************************************************************)
\* validate_request without the max_response_len check.
validate_request_no_cap_check(c, r) ==
    IF ~(c.channel >= 1 /\ c.channel <= 4) THEN InvalidConfig("channel")
    ELSE IF r.url = <<>> THEN InvalidConfig("url")
    ELSE Ok(<<>>)

validate_request(c, r) ==
    IF ~(c.channel >= 1 /\ c.channel <= 4) THEN InvalidConfig("channel")
    ELSE IF r.url = <<>> THEN InvalidConfig("url")
    ELSE IF c.max_response_len = 0 THEN InvalidConfig("max_response_len")
    ELSE Ok(<<>>)

short_poll_timeout(base) == IF base > ShortPollCap THEN ShortPollCap ELSE base

\* payload_bytes that hands an empty body to write_all as it is.
payload_bytes_verbatim(body) == body

\* send_payload: the bytes handed to write_all.
payload_bytes(body) == IF body = <<>> THEN SPACE ELSE body

\* The format!() argument of each command stage of request().
command_line(c, r, s) ==
    LET ch == to_decimal(c.channel) IN
    CASE s = "WKMOD" -> AT_WKMOD \o ch \o EQ_HTTP
      [] s = "HTPTP" -> AT_HTPTP \o ch \o EQ \o method_as_at(r.method)
      [] s = "HTPURL" -> AT_HTPURL \o ch \o EQ \o r.url
      [] s = "HTPHD" -> AT_HTPHD \o ch \o EQ \o build_head_line(r.headers, r.bearer_token).line
      [] s = "HTPPK" -> AT_HTPPK \o ch \o EQ \o to_decimal(c.response_filter_mask)
      [] s = "HTPTIM" -> AT_HTPTIM \o ch \o EQ \o to_decimal(c.request_timeout_secs)
      [] s = "HTPDT" -> AT_HTPDT \o ch \o EQ \o data_type_as_at(r.data_type)
      [] s = "DEBUG" -> AT_DEBUG_ON
      [] s = "CREG" -> AT_CREG
      [] s = "RUNST" -> AT_RUNST
      [] s = "SAVE" -> AT_S

\* The stages of request() that call send_ok_cmd with `?`, send_ok_cmd best-effort,
\* and send_query_cmd best-effort.
ConfigStages == {"WKMOD", "HTPTP", "HTPURL", "HTPHD", "HTPPK", "HTPTIM", "HTPDT"}
BestEffortStages == {"DEBUG", "CREG", "RUNST"}
QueryStages == {"CREG", "RUNST"}
CommandStages == ConfigStages \cup BestEffortStages \cup {"SAVE"}

after_debug(c) == IF c.query_link_status_before_send THEN "CREG" ELSE "SAVE"

\* next_stage that encodes the headers as soon as command mode is acquired.
next_stage_headers_first(c, r, s) ==
    CASE s \in {"enter", "probe"} ->
            IF build_head_line(r.headers, r.bearer_token).ok THEN "WKMOD"
            ELSE "head_line_error"
      [] s = "WKMOD" -> "HTPTP"
      [] s = "HTPTP" -> "HTPURL"
      [] s = "HTPURL" ->
            IF build_head_line(r.headers, r.bearer_token).line # <<>> THEN "HTPHD"
            ELSE "HTPPK"
      [] s = "HTPHD" -> "HTPPK"
      [] s = "HTPPK" -> "HTPTIM"
      [] s = "HTPTIM" -> "HTPDT"
      [] s = "HTPDT" -> IF c.enable_modem_debug_urc THEN "DEBUG" ELSE after_debug(c)
      [] s = "DEBUG" -> after_debug(c)
      [] s = "CREG" -> "RUNST"
      [] s = "RUNST" -> "SAVE"

\* next_stage with the method and URL commands exchanged.
next_stage_reordered(c, r, s) ==
    CASE s \in {"enter", "probe"} -> "WKMOD"
      [] s = "WKMOD" -> "HTPURL"
      [] s = "HTPURL" -> "HTPTP"
      [] s = "HTPTP" ->
            LET h == build_head_line(r.headers, r.bearer_token)
            IN IF ~h.ok THEN "head_line_error"
               ELSE IF h.line # <<>> THEN "HTPHD" ELSE "HTPPK"
      [] s = "HTPHD" -> "HTPPK"
      [] s = "HTPPK" -> "HTPTIM"
      [] s = "HTPTIM" -> "HTPDT"
      [] s = "HTPDT" -> IF c.enable_modem_debug_urc THEN "DEBUG" ELSE after_debug(c)
      [] s = "DEBUG" -> after_debug(c)
      [] s = "CREG" -> "RUNST"
      [] s = "RUNST" -> "SAVE"

\* The statement of request() that follows stage s; "head_line_error" is the
\* map_err(InvalidConfig)? exit of build_head_line.
next_stage(c, r, s) ==
    CASE s \in {"enter", "probe"} -> "WKMOD"
      [] s = "WKMOD" -> "HTPTP"
      [] s = "HTPTP" -> "HTPURL"
      [] s = "HTPURL" ->
            LET h == build_head_line(r.headers, r.bearer_token)
            IN IF ~h.ok THEN "head_line_error"
               ELSE IF h.line # <<>> THEN "HTPHD" ELSE "HTPPK"
      [] s = "HTPHD" -> "HTPPK"
      [] s = "HTPPK" -> "HTPTIM"
      [] s = "HTPTIM" -> "HTPDT"
      [] s = "HTPDT" -> IF c.enable_modem_debug_urc THEN "DEBUG" ELSE after_debug(c)
      [] s = "DEBUG" -> after_debug(c)
      [] s = "CREG" -> "RUNST"
      [] s = "RUNST" -> "SAVE"

\* send_ok_cmd / send_query_cmd / probe_command_mode classification of a framed response.
classify_at_response(rsp) ==
    IF contains_at_error(rsp) THEN Err("AtRejected")
    ELSE IF ~contains_ok(rsp) THEN Err("BadResponse")
    ELSE Ok(rsp)

\* The tail of request(): parse, body-required policy, result.
Pending ==
    [kind |-> "pending", err |-> "none", msg |-> "", status_code |-> None, raw |-> <<>>]
ReturnErr(e) ==
    [kind |-> "err", err |-> e.err, msg |-> e.msg, status_code |-> None, raw |-> <<>>]
ReturnOk(status_code, bytes) ==
    [kind |-> "ok", err |-> "none", msg |-> "", status_code |-> status_code, raw |-> bytes]

\* allow_empty_body that forgets 204.
allow_empty_body_304_only(status_code) == status_code.some /\ status_code.v = 304

allow_empty_body(status_code) == status_code.some /\ status_code.v \in {204, 304}

body_missing(bytes) ==
    LET b == http_body(bytes) IN IF b.some THEN b.v = <<>> ELSE TRUE

finish_request(c, bytes) ==
    LET status_code == parse_status_code(bytes) IN
    IF /\ c.require_body_on_success
       /\ is_success(status_code)
       /\ ~allow_empty_body(status_code)
       /\ body_missing(bytes)
    THEN ReturnErr(Err("BodyMissing"))
    ELSE ReturnOk(status_code, bytes)


(***************************************************************************)
(* State of one request() call.                                            *)
(***************************************************************************)
VARIABLES
    cfg,                  \* self.config
    req,                  \* the HttpRequest
    stage,                \* the statement of request() being executed
    pos,                  \* position inside it: "w1", "w2" (write_all calls), "rd" (framer)
    io,                   \* the pending await: "sleep", "write", "flush", "read";
                          \* "ret": the callee returned `ret`; "loop": at a while head
    wbuf,                 \* write_all: the bytes not yet accepted (buf)
    out,                  \* read_until_idle_impl: out
    got_any,              \* read_until_idle_impl: got_any
    nreads,               \* reads of this framer run that delivered data
    first_timeout,        \* read_until_idle_impl: first_timeout
    idle_timeout,         \* read_until_idle_impl: idle_timeout
    ret,                  \* value returned by write_all / read_until_idle
    merged,               \* send_save_and_wait_http_ready: merged
    raw,                  \* request / collect_followup_http_data: raw
    appended,             \* collect_followup_http_data: appended
    got_non_urc_payload,  \* collect_followup_http_data: got_non_urc_payload
    timeout_streak,       \* collect_followup_http_data: timeout_streak
    now,                  \* Instant::now(), in ms since the pending deadline was computed
    deadline,             \* the pending loop deadline on the same scale
    wire,                 \* every byte the transport accepted, in order
    flushes,              \* completed transport flushes
    slept,                \* the Timer::after sleeps performed, in order
    read_called,          \* whether the transport was read at all
    wfaults,              \* transport write/flush failures so far
    fn,                   \* the function a caller applies on its own ("request": none)
    arg,                  \* its argument
    val,                  \* what it returned
    cmd_ret,              \* what the send_ok_cmd / send_query_cmd call that just returned gave
                          \* its caller; NoCmdRet once the caller has consumed it
    result                \* what request() returned

vars ==
    <<cfg, req, stage, pos, io, wbuf, out, got_any, nreads, first_timeout,
      idle_timeout, ret, merged, raw, appended, got_non_urc_payload,
      timeout_streak, now, deadline, wire, flushes, slept, read_called, wfaults,
      cmd_ret, result, fn, arg, val>>

\* what a request() call leaves alone
Static == <<cfg, req, fn, arg, val>>
Obs == <<wire, flushes, slept, read_called, wfaults>>
Framer == <<out, got_any, nreads, first_timeout, idle_timeout>>
Follow == <<raw, appended, got_non_urc_payload, timeout_streak>>
Clock == <<now, deadline>>
LoopLocals == <<merged, Follow, Clock>>

LoopStages == {"SAVE", "followup"}

\* the locals and observations of request() before the call
CallStart ==
    /\ stage = "start" /\ pos = "none" /\ io = "none"
    /\ wbuf = <<>>
    /\ out = <<>> /\ got_any = FALSE /\ nreads = 0
    /\ first_timeout = 0 /\ idle_timeout = 0
    /\ ret = Ok(<<>>)
    /\ merged = <<>>
    /\ raw = <<>> /\ appended = FALSE /\ got_non_urc_payload = FALSE
    /\ timeout_streak = 0
    /\ now = 0 /\ deadline = 0
    /\ wire = <<>> /\ flushes = 0 /\ slept = <<>> /\ read_called = FALSE
    /\ wfaults = 0
    /\ cmd_ret = NoCmdRet
    /\ result = Pending

NotApplied == [applied |-> FALSE]
Applied(v) == [applied |-> TRUE, v |-> v]

Init ==
    /\ \E sc \in Scenarios : cfg = sc[1] /\ req = sc[2]
    /\ CallStart
    /\ fn = "request" /\ arg = <<>> /\ val = NotApplied

(***************************************************************************)
(* Control transfers shared by the actions.                                *)
(***************************************************************************)
\* call write_all(buf) as the write `p` of stage s
BeginWrite(s, p, buf) ==
    /\ stage' = s /\ pos' = p
    /\ io' = IF buf = <<>> THEN "flush" ELSE "write"
    /\ wbuf' = buf
    /\ ret' = Ok(<<>>)
    /\ UNCHANGED <<Framer, result>>

\* call read_until_idle(ft, it) in stage s
BeginRead(s, ft, it) ==
    /\ stage' = s /\ pos' = "rd" /\ io' = "read"
    /\ out' = <<>> /\ got_any' = FALSE /\ nreads' = 0
    /\ first_timeout' = ft /\ idle_timeout' = it
    /\ ret' = Ok(<<>>)
    /\ UNCHANGED <<wbuf, result>>

\* write_all / read_until_idle return r to the stage that called them
Return(r) == io' = "ret" /\ ret' = r /\ UNCHANGED <<stage, pos, result>>

\* request() returns: its locals are dropped
DropLocals ==
    /\ stage' = "done" /\ pos' = "none" /\ io' = "none"
    /\ wbuf' = <<>>
    /\ out' = <<>> /\ got_any' = FALSE /\ nreads' = 0
    /\ first_timeout' = 0 /\ idle_timeout' = 0
    /\ ret' = Ok(<<>>)
    /\ merged' = <<>>
    /\ raw' = <<>> /\ appended' = FALSE /\ got_non_urc_payload' = FALSE
    /\ timeout_streak' = 0
    /\ now' = 0 /\ deadline' = 0

\* `?` / return Err(e): request() returns the error
Propagate(e) == result' = ReturnErr(e) /\ DropLocals

\* continue request() with the statement after stage s
Advance(s) ==
    LET n == next_stage(cfg, req, s) IN
    IF n = "head_line_error"
    THEN Propagate(InvalidConfig("head_line"))
    ELSE BeginWrite(n, "w1", command_line(cfg, req, n)) /\ UNCHANGED LoopLocals

(***************************************************************************)
(* write_all (client.rs 513-529): the transport's answers to write/flush.  *)
(***************************************************************************)
\* how many bytes one transport write may accept: all, or all but the last one
WriteCounts(buf) == {n \in 1..Len(buf) : n = Len(buf) \/ n = Len(buf) - 1}

TransportWrite ==
    /\ io = "write"
    /\ \E n \in WriteCounts(wbuf) :
          /\ wire' = wire \o Take(wbuf, n)
          /\ wbuf' = From(wbuf, n + 1)
          /\ io' = IF n = Len(wbuf) THEN "flush" ELSE "write"
    /\ cmd_ret' = NoCmdRet /\ UNCHANGED <<Static, stage, pos, Framer, ret, LoopLocals,
                   flushes, slept, read_called, wfaults, result>>

TransportWriteZero ==
    /\ io = "write"
    /\ wfaults < MaxWriteFaults
    /\ wfaults' = wfaults + 1
    /\ Return(Err("WriteZero"))
    /\ cmd_ret' = NoCmdRet /\ UNCHANGED <<Static, wbuf, Framer, LoopLocals, wire, flushes, slept,
                   read_called>>

TransportWriteError ==
    /\ io = "write"
    /\ wfaults < MaxWriteFaults
    /\ wfaults' = wfaults + 1
    /\ Return(Err("Transport"))
    /\ cmd_ret' = NoCmdRet /\ UNCHANGED <<Static, wbuf, Framer, LoopLocals, wire, flushes, slept,
                   read_called>>

TransportFlush ==
    /\ io = "flush"
    /\ flushes' = flushes + 1
    /\ Return(Ok(<<>>))
    /\ cmd_ret' = NoCmdRet /\ UNCHANGED <<Static, wbuf, Framer, LoopLocals, wire, slept, read_called,
                   wfaults>>

TransportFlushError ==
    /\ io = "flush"
    /\ wfaults < MaxWriteFaults
    /\ wfaults' = wfaults + 1
    /\ Return(Err("Transport"))
    /\ cmd_ret' = NoCmdRet /\ UNCHANGED <<Static, wbuf, Framer, LoopLocals, wire, flushes, slept,
                   read_called>>

(***************************************************************************)
(* read_until_idle_impl (client.rs 549-592): the transport's answers to    *)
(* with_timeout(timeout, read).                                            *)
(***************************************************************************)
\* the clock is observed only while a loop deadline is pending
Elapse(dt) ==
    /\ now' = IF stage \in LoopStages THEN now + dt ELSE now
    /\ UNCHANGED deadline

FramerReturn(r) ==
    /\ Return(r)
    /\ out' = <<>> /\ got_any' = FALSE /\ nreads' = 0
    /\ UNCHANGED <<first_timeout, idle_timeout>>

\* framer_accepts that tests the buffer alone, not the buffer with the chunk.
framer_accepts_buffer_only(c, buf, chunk) == Len(buf) <= c.max_response_len

\* client.rs 585: the cap check that precedes the append of a received chunk
framer_accepts(c, buf, chunk) == Len(buf) + Len(chunk) <= c.max_response_len

ReadData ==
    /\ io = "read"
    /\ nreads < MaxReads
    /\ \E chunk \in RxChunks(stage) :
          /\ Len(chunk) <= READ_BUF_LEN
          /\ IF framer_accepts(cfg, out, chunk)
             THEN /\ out' = out \o chunk
                  /\ got_any' = TRUE
                  /\ nreads' = nreads + 1
                  /\ UNCHANGED <<stage, pos, io, ret, first_timeout, idle_timeout,
                                 result>>
             ELSE FramerReturn(Err("ResponseTooLarge"))
    /\ Elapse(ReadLatency)
    /\ read_called' = TRUE
    /\ cmd_ret' = NoCmdRet /\ UNCHANGED <<Static, wbuf, merged, Follow, wire, flushes, slept, wfaults>>

ReadEof ==
    /\ io = "read"
    /\ FramerReturn(Ok(out))
    /\ Elapse(ReadLatency)
    /\ read_called' = TRUE
    /\ cmd_ret' = NoCmdRet /\ UNCHANGED <<Static, wbuf, merged, Follow, wire, flushes, slept, wfaults>>

ReadError ==
    /\ io = "read"
    /\ FramerReturn(Err("Transport"))
    /\ Elapse(ReadLatency)
    /\ read_called' = TRUE
    /\ cmd_ret' = NoCmdRet /\ UNCHANGED <<Static, wbuf, merged, Follow, wire, flushes, slept, wfaults>>

\* client.rs 560: the timeout one read is awaited under
read_timeout(got, ft, it) == IF got THEN it ELSE ft

\* timeout_outcome that fails whether or not bytes were received.
timeout_outcome_always_fails(got, buf) == Err("Timeout")

\* client.rs 566-577 and 591: what the framer returns when with_timeout elapses
timeout_outcome(got, buf) == IF got THEN Ok(buf) ELSE Err("Timeout")

ReadTimeout ==
    /\ io = "read"
    /\ FramerReturn(timeout_outcome(got_any, out))
    /\ Elapse(read_timeout(got_any, first_timeout, idle_timeout))
    /\ read_called' = TRUE
    /\ cmd_ret' = NoCmdRet /\ UNCHANGED <<Static, wbuf, merged, Follow, wire, flushes, slept, wfaults>>

(***************************************************************************)
(* request() (client.rs 106-269) and the functions it calls.               *)
(***************************************************************************)
\* client.rs 113: self.validate_request(req)?
Validate ==
    /\ stage = "start"
    /\ LET v == validate_request(cfg, req) IN
       IF v.ok
       THEN /\ stage' = "enter" /\ pos' = "none" /\ io' = "sleep"
            /\ UNCHANGED <<ret, result, wbuf, Framer, LoopLocals>>
       ELSE Propagate(v)
    /\ cmd_ret' = NoCmdRet /\ UNCHANGED <<Static, Obs>>

\* enter_command_mode, client.rs 416-417: guard sleep, then write_all(b"+++")
GuardSleep ==
    /\ stage = "enter" /\ io = "sleep"
    /\ slept' = Append(slept, [timer |-> "cmd_guard_time", ms |-> cfg.cmd_guard_time])
    /\ BeginWrite("enter", "w1", ESCAPE)
    /\ cmd_ret' = NoCmdRet /\ UNCHANGED <<Static, LoopLocals, wire, flushes, read_called, wfaults>>

\* enter_command_mode, client.rs 417-421: write_all(b"+++").await? then the framer
EnterWritten ==
    /\ stage = "enter" /\ io = "ret" /\ pos = "w1"
    /\ IF ret.ok
       THEN BeginRead("enter", cfg.at_first_timeout, cfg.at_idle_timeout)
            /\ UNCHANGED LoopLocals
       ELSE Propagate(ret)
    /\ cmd_ret' = NoCmdRet /\ UNCHANGED <<Static, Obs>>

\* enter_decision that falls back to the probe after any framer error.
enter_decision_probe_on_error(c, r) ==
    IF r.ok
    THEN IF contains_ok(r.val) THEN [next |-> "ready", e |-> r]
         ELSE IF c.enable_command_probe_fallback THEN [next |-> "probe", e |-> r]
         ELSE [next |-> "fail", e |-> Err("BadResponse")]
    ELSE IF c.enable_command_probe_fallback THEN [next |-> "probe", e |-> r]
    ELSE [next |-> "fail", e |-> r]

\* enter_command_mode, client.rs 419-449: what follows the framed escape response:
\* "ready", "probe", or "fail" with the error returned
enter_decision(c, r) ==
    IF r.ok
    THEN IF contains_ok(r.val) THEN [next |-> "ready", e |-> r]
         ELSE IF c.enable_command_probe_fallback THEN [next |-> "probe", e |-> r]
         ELSE [next |-> "fail", e |-> Err("BadResponse")]
    ELSE IF r.err = "Timeout"
    THEN IF c.enable_command_probe_fallback THEN [next |-> "probe", e |-> r]
         ELSE [next |-> "fail", e |-> Err("Timeout")]
    ELSE [next |-> "fail", e |-> r]

EnterFramed ==
    /\ stage = "enter" /\ io = "ret" /\ pos = "rd"
    /\ LET d == enter_decision(cfg, ret) IN
       CASE d.next = "ready" -> Advance("enter")
         [] d.next = "probe" -> BeginWrite("probe", "w1", PROBE) /\ UNCHANGED LoopLocals
         [] d.next = "fail" -> Propagate(d.e)
    /\ cmd_ret' = NoCmdRet /\ UNCHANGED <<Static, Obs>>

\* probe_command_mode, client.rs 457: Duration::from_secs(2)
PROBE_FIRST_TIMEOUT == 2000

\* probe_command_mode, client.rs 454-458
ProbeWritten ==
    /\ stage = "probe" /\ io = "ret" /\ pos = "w1"
    /\ IF ret.ok
       THEN BeginRead("probe", PROBE_FIRST_TIMEOUT, cfg.at_idle_timeout)
            /\ UNCHANGED LoopLocals
       ELSE Propagate(ret)
    /\ cmd_ret' = NoCmdRet /\ UNCHANGED <<Static, Obs>>

\* what send_ok_cmd / send_query_cmd / probe_command_mode return once the framer returned r
exchange_result(r) == IF r.ok THEN classify_at_response(r.val) ELSE r

\* send_ok_cmd with the OK test before the error test.
send_cmd_result_ok_first(s, r) ==
    IF ~r.ok THEN r
    ELSE IF contains_ok(r.val) THEN (IF s \in QueryStages THEN Ok(r.val) ELSE Ok(<<>>))
    ELSE IF contains_at_error(r.val) THEN Err("AtRejected")
    ELSE Err("BadResponse")

\* what send_ok_cmd (Ok(())) or send_query_cmd (Ok(rsp)) returns in stage s once
\* the framer returned r, client.rs 477-489 and 497-510
send_cmd_result(s, r) ==
    LET e == exchange_result(r)
    IN IF e.ok /\ s \notin QueryStages THEN Ok(<<>>) ELSE e

\* probe_command_mode, client.rs 456-469
ProbeFramed ==
    /\ stage = "probe" /\ io = "ret" /\ pos = "rd"
    /\ LET r == exchange_result(ret) IN
       IF r.ok THEN Advance("probe") ELSE Propagate(r)
    /\ cmd_ret' = NoCmdRet /\ UNCHANGED <<Static, Obs>>

\* aborts that lets no stage go on after a failure.
aborts_always(s, r) == ~r.ok

\* aborts with the timeout command treated as best-effort too.
aborts_tolerant(s, r) == ~r.ok /\ s \notin BestEffortStages \cup {"HTPTIM"}

\* aborts with only the DEBUG step treated as best-effort.
aborts_on_link_status(s, r) == ~r.ok /\ s # "DEBUG"

\* whether request() returns when a call made in stage s returned r
aborts(s, r) == ~r.ok /\ s \notin BestEffortStages

\* send_ok_cmd / send_query_cmd, client.rs 474-479 and 494-499: the two write_all calls
CmdWritten ==
    /\ stage \in ConfigStages \cup BestEffortStages
    /\ io = "ret" /\ pos \in {"w1", "w2"}
    /\ IF ret.ok
       THEN IF pos = "w1"
            THEN BeginWrite(stage, "w2", CRLF) /\ UNCHANGED LoopLocals
            ELSE BeginRead(stage, cfg.at_first_timeout, cfg.at_idle_timeout)
                 /\ UNCHANGED LoopLocals
       ELSE IF aborts(stage, ret) THEN Propagate(ret) ELSE Advance(stage)
    /\ cmd_ret' = IF ret.ok THEN NoCmdRet ELSE ret
    /\ UNCHANGED <<Static, Obs>>

\* send_ok_cmd / send_query_cmd, client.rs 477-489 and 497-510, and the caller's
\* `?` (configuration stages) or logged-and-ignored error (best-effort stages)
CmdFramed ==
    /\ stage \in ConfigStages \cup BestEffortStages
    /\ io = "ret" /\ pos = "rd"
    /\ LET r == send_cmd_result(stage, ret) IN
       /\ cmd_ret' = r
       /\ IF aborts(stage, r) THEN Propagate(r) ELSE Advance(stage)
    /\ UNCHANGED <<Static, Obs>>

\* send_save_and_wait_http_ready, client.rs 343-347
SaveWritten ==
    /\ stage = "SAVE" /\ io = "ret" /\ pos \in {"w1", "w2"}
    /\ IF ~ret.ok
       THEN Propagate(ret)
       ELSE IF pos = "w1"
       THEN BeginWrite("SAVE", "w2", CRLF) /\ UNCHANGED LoopLocals
       ELSE /\ now' = 0 /\ deadline' = cfg.http_ready_timeout
            /\ merged' = <<>>
            /\ io' = "loop" /\ pos' = "rd"
            /\ UNCHANGED <<stage, ret, wbuf, result, Framer, Follow>>
    /\ cmd_ret' = NoCmdRet /\ UNCHANGED <<Static, Obs>>

\* send_save_and_wait_http_ready, client.rs 349-353 and 384-386: the while head
SaveWaitLoop ==
    /\ stage = "SAVE" /\ io = "loop"
    /\ IF now < deadline
       THEN BeginRead("SAVE", short_poll_timeout(cfg.at_first_timeout),
                      cfg.at_idle_timeout)
            /\ UNCHANGED LoopLocals
       ELSE Propagate(Err("Timeout"))
    /\ cmd_ret' = NoCmdRet /\ UNCHANGED <<Static, Obs>>

\* save_merge that appends whatever the cap.
save_merge_unchecked(c, acc, chunk) == acc \o chunk

\* client.rs 368-370: the capped append to merged
save_merge(c, acc, chunk) ==
    IF Len(acc) + Len(chunk) <= c.max_response_len THEN acc \o chunk ELSE acc

\* save_classify that does not look for the failure notification.
save_classify_ignores_fail(acc) ==
    IF contains_at_error(acc) THEN "AtRejected"
    ELSE IF contains_http_ready(acc) THEN "ready"
    ELSE "poll"

\* save_classify that tests the failure notification before the error marker.
save_classify_fail_first(acc) ==
    IF contains_http_fail(acc) THEN "BadResponse"
    ELSE IF contains_at_error(acc) THEN "AtRejected"
    ELSE IF contains_http_ready(acc) THEN "ready"
    ELSE "poll"

\* save_classify that takes a plain OK acknowledgement for the ready marker.
save_classify_on_ok(acc) ==
    IF contains_at_error(acc) THEN "AtRejected"
    ELSE IF contains_http_fail(acc) THEN "BadResponse"
    ELSE IF contains_http_ready(acc) \/ contains_ok(acc) THEN "ready"
    ELSE "poll"

\* client.rs 372-381: "AtRejected", "BadResponse", "ready", or "poll" (next iteration)
save_classify(acc) ==
    IF contains_at_error(acc) THEN "AtRejected"
    ELSE IF contains_http_fail(acc) THEN "BadResponse"
    ELSE IF contains_http_ready(acc) THEN "ready"
    ELSE "poll"

\* the next iteration of a polling loop
Continue == io' = "loop" /\ ret' = Ok(<<>>) /\ UNCHANGED <<stage, pos, result, wbuf, Framer>>

\* send_save_and_wait_http_ready, client.rs 351-381: one poll returned
SaveWaitPolled ==
    /\ stage = "SAVE" /\ io = "ret" /\ pos = "rd"
    /\ IF ~ret.ok
       THEN IF ret.err = "Timeout"
            THEN Continue /\ UNCHANGED LoopLocals
            ELSE Propagate(ret)
       ELSE IF ret.val = <<>>
       THEN Continue /\ UNCHANGED LoopLocals
       ELSE LET acc == save_merge(cfg, merged, ret.val)
                k == save_classify(acc)
            IN CASE k \in {"AtRejected", "BadResponse"} -> Propagate(Err(k))
                 [] k = "ready" ->
                       /\ stage' = "settle" /\ pos' = "none" /\ io' = "sleep"
                       /\ ret' = Ok(<<>>)
                       /\ merged' = acc /\ now' = 0 /\ deadline' = 0
                       /\ UNCHANGED <<result, wbuf, Framer, Follow>>
                 [] k = "poll" ->
                       Continue /\ merged' = acc /\ UNCHANGED <<Follow, Clock>>
    /\ cmd_ret' = NoCmdRet /\ UNCHANGED <<Static, Obs>>

\* request(), client.rs 205-207: settle sleep, then send_payload(req.body)
SettleSleep ==
    /\ stage = "settle" /\ io = "sleep"
    /\ slept' = Append(slept, [timer |-> "post_entm_settle_time",
                               ms |-> cfg.post_entm_settle_time])
    /\ BeginWrite("payload", "w1", payload_bytes(req.body))
    /\ merged' = <<>>
    /\ cmd_ret' = NoCmdRet /\ UNCHANGED <<Static, Follow, Clock, wire, flushes, read_called, wfaults>>

\* request(), client.rs 207-214 and 219-224: send_payload(..).await? then the framer
PayloadWritten ==
    /\ stage \in {"payload", "payload_retry"} /\ io = "ret" /\ pos = "w1"
    /\ IF ret.ok
       THEN BeginRead(IF stage = "payload" THEN "primary" ELSE "primary_retry",
                      cfg.http_first_timeout, cfg.http_idle_timeout)
            /\ UNCHANGED LoopLocals
       ELSE Propagate(ret)
    /\ cmd_ret' = NoCmdRet /\ UNCHANGED <<Static, Obs>>

\* primary_decision that resends the payload without consulting the retry flag.
primary_decision_unflagged(c, s, r) ==
    IF r.ok THEN "followup"
    ELSE IF s = "primary" /\ r.err = "Timeout" THEN "retry"
    ELSE "fail"

\* request(), client.rs 209-237: what follows the primary framing of stage s:
\* "followup", "retry" (resend the payload), or "fail"
primary_decision(c, s, r) ==
    IF r.ok THEN "followup"
    ELSE IF s = "primary" /\ r.err = "Timeout" /\ c.retry_payload_on_http_timeout
    THEN "retry"
    ELSE "fail"

\* request(), client.rs 209-239, and collect_followup_http_data 275-278
PrimaryFramed ==
    /\ stage \in {"primary", "primary_retry"} /\ io = "ret" /\ pos = "rd"
    /\ LET d == primary_decision(cfg, stage, ret) IN
       CASE d = "followup" ->
               /\ raw' = ret.val
               /\ now' = 0 /\ deadline' = cfg.http_followup_timeout
               /\ timeout_streak' = 0 /\ appended' = FALSE
               /\ got_non_urc_payload' = FALSE
               /\ stage' = "followup" /\ pos' = "rd" /\ io' = "loop"
               /\ ret' = Ok(<<>>)
               /\ UNCHANGED <<wbuf, result, Framer, merged>>
         [] d = "retry" ->
               /\ BeginWrite("payload_retry", "w1", payload_bytes(req.body))
               /\ UNCHANGED LoopLocals
         [] d = "fail" -> Propagate(ret)
    /\ cmd_ret' = NoCmdRet /\ UNCHANGED <<Static, Obs>>

\* collect_followup_http_data returns Ok(raw): request() goes on at client.rs 240
FollowupDone ==
    /\ stage' = "finish" /\ pos' = "none" /\ io' = "none"
    /\ ret' = Ok(<<>>)
    /\ now' = 0 /\ deadline' = 0
    /\ timeout_streak' = 0 /\ appended' = FALSE /\ got_non_urc_payload' = FALSE
    /\ UNCHANGED <<result, wbuf, Framer, merged>>

\* collect_followup_http_data, client.rs 280-285 and 323: the while head
FollowupLoop ==
    /\ stage = "followup" /\ io = "loop"
    /\ IF now < deadline
       THEN /\ BeginRead("followup",
                         short_poll_timeout(cfg.http_followup_first_timeout),
                         cfg.http_idle_timeout)
            /\ UNCHANGED LoopLocals
       ELSE FollowupDone /\ UNCHANGED raw
    /\ cmd_ret' = NoCmdRet /\ UNCHANGED <<Static, Obs>>

U8_MAX == 255
saturating_add_u8(a, b) == IF a + b > U8_MAX THEN U8_MAX ELSE a + b

\* miss_breaks that stops at the first miss whether or not anything was appended.
miss_breaks_on_first_miss(streak, app, non_urc) == streak >= 1

\* client.rs 289 and 299: whether a timed-out or empty poll breaks the loop
miss_breaks(streak, app, non_urc) == streak >= 1 /\ (app \/ non_urc)

\* followup_accepts that tests the chunk alone, not the accumulation with it.
followup_accepts_chunk_only(c, acc, chunk) == Len(chunk) <= c.max_response_len

\* client.rs 313: the cap check of one follow-up chunk
followup_accepts(c, acc, chunk) == Len(acc) + Len(chunk) <= c.max_response_len

\* followup_append that keeps the newest chunk only.
followup_append_replaces(acc, chunk) == chunk

\* client.rs 316: raw.extend_from_slice(&chunk)
followup_append(acc, chunk) == acc \o chunk

\* client.rs 307: let non_urc = !chunk.starts_with(b"FS@")
is_non_urc(chunk) == ~starts_with(chunk, FS_AT)

\* collect_followup_http_data, client.rs 282-320: one poll returned
FollowupPolled ==
    /\ stage = "followup" /\ io = "ret" /\ pos = "rd"
    /\ IF (~ret.ok /\ ret.err = "Timeout") \/ (ret.ok /\ ret.val = <<>>)
       THEN LET streak == saturating_add_u8(timeout_streak, 1) IN
            IF miss_breaks(streak, appended, got_non_urc_payload)
            THEN FollowupDone /\ UNCHANGED raw
            ELSE /\ Continue
                 /\ timeout_streak' = streak
                 /\ UNCHANGED <<raw, appended, got_non_urc_payload, Clock, merged>>
       ELSE IF ~ret.ok
       THEN Propagate(ret)
       ELSE IF ~followup_accepts(cfg, raw, ret.val)
       THEN Propagate(Err("ResponseTooLarge"))
       ELSE /\ raw' = followup_append(raw, ret.val)
            /\ IF is_non_urc(ret.val)
               THEN FollowupDone
               ELSE /\ Continue
                    /\ timeout_streak' = 0 /\ appended' = TRUE
                    /\ UNCHANGED <<got_non_urc_payload, Clock, merged>>
    /\ cmd_ret' = NoCmdRet /\ UNCHANGED <<Static, Obs>>

\* request(), client.rs 240-268: parse the status, enforce the body policy, return
Finish ==
    /\ stage = "finish"
    /\ result' = finish_request(cfg, raw)
    /\ DropLocals
    /\ cmd_ret' = NoCmdRet /\ UNCHANGED <<Static, Obs>>

Next ==
    \/ Validate \/ GuardSleep \/ EnterWritten \/ EnterFramed
    \/ ProbeWritten \/ ProbeFramed
    \/ CmdWritten \/ CmdFramed
    \/ SaveWritten \/ SaveWaitLoop \/ SaveWaitPolled
    \/ SettleSleep \/ PayloadWritten \/ PrimaryFramed
    \/ FollowupLoop \/ FollowupPolled \/ Finish
    \/ TransportWrite \/ TransportWriteZero \/ TransportWriteError
    \/ TransportFlush \/ TransportFlushError
    \/ ReadData \/ ReadEof \/ ReadError \/ ReadTimeout

Spec == Init /\ [][Next]_vars

\* The steps request() takes by itself between two awaits, and the timer sleeps.
ClientStep ==
    \/ Validate \/ GuardSleep \/ EnterWritten \/ EnterFramed
    \/ ProbeWritten \/ ProbeFramed
    \/ CmdWritten \/ CmdFramed
    \/ SaveWritten \/ SaveWaitLoop \/ SaveWaitPolled
    \/ SettleSleep \/ PayloadWritten \/ PrimaryFramed
    \/ FollowupLoop \/ FollowupPolled

\* client.rs 240-268 awaits nothing: the parse and the policy test of Finish are
\* a finite computation, so request() does not stay in stage "finish".
FinishCompletes == []<>(stage # "finish")

\* client.rs 561-562: every transport read is awaited under with_timeout, so it
\* resolves: with data, end of stream, an error, or the timeout.
ReadResolves == ReadData \/ ReadEof \/ ReadError \/ ReadTimeout

\* The executor runs the client and the timers fire; every read resolves.  The
\* write and flush awaits of write_all (client.rs 515-527) carry no timeout, so
\* nothing obliges the transport to complete them.
LiveSpec ==
    /\ Init /\ [][Next]_vars
    /\ WF_vars(ClientStep) /\ WF_vars(ReadResolves) /\ FinishCompletes


(***************************************************************************)
(* Properties of request().                                                *)
(***************************************************************************)
Occurrences(s, pat) ==
    Cardinality({i \in 1..(Len(s) - Len(pat) + 1) : SubSeq(s, i, i + Len(pat) - 1) = pat})

\* a framed response that acknowledges a command: an OK line and no error marker
Acked ==
    /\ io = "ret" /\ pos = "rd" /\ ret.ok
    /\ contains_ok(ret.val) /\ ~contains_at_error(ret.val)

\* the configuration commands of a call, in the order the pipeline prescribes
ConfigOrder(r) ==
    <<"WKMOD", "HTPTP", "HTPURL">>
    \o (IF build_head_line(r.headers, r.bearer_token).line # <<>>
        THEN <<"HTPHD">> ELSE <<>>)
    \o <<"HTPPK", "HTPTIM", "HTPDT">>

RECURSIVE ConfigScript(_, _, _)
ConfigScript(c, r, k) ==
    IF k = 0 THEN <<>>
    ELSE ConfigScript(c, r, k - 1) \o command_line(c, r, ConfigOrder(r)[k]) \o CRLF

AT_HTP == <<65, 84, 43, 72, 84, 80>>                       \* "AT+HTP"

\* the bytes on the wire are the escape (and probe), then the configuration
\* lines in order, each once; what follows the complete script holds no
\* configuration command and AT+S at most once
WireInOrder ==
    \E script \in {ConfigScript(cfg, req, Len(ConfigOrder(req)))} :
    \E full \in {ESCAPE \o script, ESCAPE \o PROBE \o script} :
       \/ starts_with(full, wire)
       \/ /\ starts_with(wire, full)
          /\ \E rest \in {From(wire, Len(full) + 1)} :
                /\ find_subslice(rest, AT_HTP) = 0
                /\ find_subslice(rest, AT_WKMOD) = 0
                /\ Occurrences(rest, AT_S \o CRLF) <= 1

ConfigPosition(r, s) == CHOOSE k \in 1..Len(ConfigOrder(r)) : ConfigOrder(r)[k] = s

C1_Step ==
    /\ wire' # wire => WireInOrder'
    /\ \A s \in ConfigStages :
          (stage' = s /\ stage # s) =>
             /\ \E k \in 1..Len(ConfigOrder(req)) : ConfigOrder(req)[k] = s
             /\ IF ConfigPosition(req, s) = 1
                THEN stage \in {"enter", "probe"} /\ io = "ret" /\ pos = "rd"
                ELSE stage = ConfigOrder(req)[ConfigPosition(req, s) - 1] /\ Acked
    /\ \A s \in BestEffortStages :
          (stage' = s /\ stage # s) =>
             (stage = "HTPDT" /\ Acked) \/ stage \in BestEffortStages
    /\ (stage' = "SAVE" /\ stage # "SAVE") =>
          /\ (stage = "HTPDT" /\ Acked) \/ stage \in BestEffortStages
          /\ \E pre \in {ESCAPE, ESCAPE \o PROBE} :
                starts_with(wire, pre \o ConfigScript(cfg, req, Len(ConfigOrder(req))))

\* C1: the configuration lines go out in the order WKMOD, HTPTP, HTPURL, HTPHD
\* (only with a non-empty head line), HTPPK, HTPTIM, HTPDT, each at most once and
\* each only after the previous one was acknowledged; AT+S is written only after
\* all of them succeeded.
C1_StrictCommandOrder == [][C1_Step]_vars

C1_SaveAfterAllCommands ==
    /\ stage = "SAVE" /\ ends_with(wire, AT_S \o CRLF)
    /\ find_subslice(wire, AT_HTPHD) # 0

When(cond, e) == IF cond THEN {e} ELSE {}

\* the errors of the fail-fast steps that complete in the current state
StepFailures ==
    When(stage = "start" /\ ~validate_request(cfg, req).ok, validate_request(cfg, req))
    \cup When(/\ io = "ret" /\ pos \in {"w1", "w2"} /\ ~ret.ok
              /\ stage \notin BestEffortStages,
              ret)
    \cup When(/\ io = "ret" /\ pos = "rd" /\ ~ret.ok
              /\ \/ stage \in ConfigStages \cup {"probe", "primary_retry"}
                 \/ stage \in {"enter", "SAVE", "followup"} /\ ret.err # "Timeout"
                 \/ stage = "enter" /\ ~cfg.enable_command_probe_fallback
                 \/ /\ stage = "primary"
                    /\ ~(ret.err = "Timeout" /\ cfg.retry_payload_on_http_timeout),
              ret)
    \cup When(/\ io = "ret" /\ pos = "rd" /\ ret.ok
              /\ stage \in ConfigStages \cup {"probe"}
              /\ contains_at_error(ret.val),
              Err("AtRejected"))
    \cup When(/\ io = "ret" /\ pos = "rd" /\ ret.ok
              /\ \/ stage \in ConfigStages \cup {"probe"} /\ ~contains_at_error(ret.val)
                 \/ stage = "enter" /\ ~cfg.enable_command_probe_fallback
              /\ ~contains_ok(ret.val),
              Err("BadResponse"))
    \cup When(stage = "SAVE" /\ io = "loop" /\ now >= deadline, Err("Timeout"))
    \cup When(/\ stage = "followup" /\ io = "ret" /\ pos = "rd" /\ ret.ok
              /\ Len(raw) + Len(ret.val) > cfg.max_response_len,
              Err("ResponseTooLarge"))

C2_Step ==
    /\ stage # "done"
    /\ \A e \in StepFailures :
          /\ result' = ReturnErr(e)
          /\ stage' = "done"
          /\ wire' = wire /\ flushes' = flushes
    /\ result'.kind # "pending" => stage' = "done"

\* C2: a failing step of request() (validation, command-mode entry, a configuration
\* command, the save-and-wait step, the payload write, the primary framing after
\* the permitted retry, the follow-up collection) makes request() return exactly
\* that step's error at once, and no byte is written afterwards.
C2_FailFast == [][C2_Step]_vars

C2_RejectedCommandReturned ==
    /\ stage = "done" /\ result.kind = "err" /\ result.err = "AtRejected"
    /\ ends_with(wire, command_line(cfg, req, "HTPPK") \o CRLF)

PayloadStages == {"payload", "primary", "payload_retry", "primary_retry", "followup", "finish"}

C3_Step ==
    /\ (stage = "SAVE" /\ stage' \notin {"SAVE", "done"}) =>
          /\ io = "ret" /\ pos = "rd" /\ ret.ok
          /\ contains_http_ready(merged \o ret.val)
          /\ stage' = "settle" /\ wire' = wire
    /\ (stage' = "settle" /\ stage # "settle") => stage = "SAVE"
    /\ (stage' = "payload" /\ stage # "payload") =>
          /\ stage = "settle"
          /\ slept' = Append(slept, [timer |-> "post_entm_settle_time",
                                     ms |-> cfg.post_entm_settle_time])
    /\ stage' \in PayloadStages =>
          /\ slept'[Len(slept')].timer = "post_entm_settle_time"
          /\ stage \in PayloadStages \cup {"settle"}
    /\ (wire' # wire /\ stage \notin CommandStages \cup {"enter", "probe"}) =>
          /\ stage \in {"payload", "payload_retry"}
          /\ wire' = wire \o Take(wbuf, Len(wire') - Len(wire))

\* C3: the payload is written only after the save-and-wait step succeeded, that is
\* after its accumulation contained FS@HTTP OK:, and after the settle sleep; a
\* plain OK acknowledgement of AT+S does not release the payload.
C3_PayloadAfterReady == [][C3_Step]_vars

C3_PayloadWrittenAfterReady ==
    /\ stage = "payload" /\ io = "ret" /\ ret.ok
    /\ ends_with(wire, AT_S \o CRLF \o payload_bytes(req.body))

C4_Step ==
    /\ (stage = "SAVE" /\ io = "ret" /\ pos = "rd") =>
          IF ret.ok /\ ret.val # <<>>
          THEN LET acc == IF Len(merged) + Len(ret.val) <= cfg.max_response_len
                          THEN merged \o ret.val ELSE merged
               IN IF contains_at_error(acc)
                  THEN result' = ReturnErr(Err("AtRejected")) /\ stage' = "done"
                  ELSE IF contains_http_fail(acc)
                  THEN result' = ReturnErr(Err("BadResponse")) /\ stage' = "done"
                  ELSE IF contains_http_ready(acc)
                  THEN stage' = "settle" /\ result' = Pending
                  ELSE /\ stage' = "SAVE" /\ io' = "loop" /\ result' = Pending
                       /\ merged' = acc /\ UNCHANGED <<now, deadline>>
          ELSE (ret.ok \/ ret.err = "Timeout") =>
                  /\ stage' = "SAVE" /\ io' = "loop" /\ result' = Pending
                  /\ UNCHANGED <<merged, now, deadline>>
    /\ (stage = "SAVE" /\ io = "loop") =>
          IF now < deadline
          THEN stage' = "SAVE" /\ io' = "read" /\ result' = Pending
          ELSE result' = ReturnErr(Err("Timeout")) /\ stage' = "done"

\* C4: after every non-empty poll of the save-and-wait step the accumulated bytes
\* are classified with the priority error marker (AtRejected), then FS@HTTP FAIL:
\* (BadResponse), then FS@HTTP OK: (success), else polling goes on; the step fails
\* with Timeout once the deadline is reached; a timed-out or empty poll never ends
\* the step before the deadline.
C4_SaveWaitPriority == [][C4_Step]_vars

C4_ErrorAndFailInOnePoll ==
    /\ stage = "SAVE" /\ io = "ret" /\ pos = "rd" /\ ret.ok
    /\ contains_at_error(ret.val) /\ contains_http_fail(ret.val)

\* what the transport accepted after the AT+S line
PayloadRegion ==
    LET k == find_subslice(wire, AT_S \o CRLF)
    IN IF k = 0 THEN <<>> ELSE From(wire, k + Len(AT_S \o CRLF))

C5_Step ==
    /\ wire' # wire =>
          /\ starts_with(payload_bytes(req.body) \o payload_bytes(req.body), PayloadRegion')
          /\ Len(PayloadRegion') > Len(payload_bytes(req.body)) =>
                cfg.retry_payload_on_http_timeout
          /\ \A pat \in {ESCAPE, AT_S, AT_WKMOD, AT_HTPTP, AT_HTPURL, AT_HTPHD,
                         AT_HTPPK, AT_HTPTIM, AT_HTPDT} :
                Occurrences(wire', pat) <= 1
    /\ (stage' = "payload_retry" /\ stage # "payload_retry") =>
          /\ stage = "primary" /\ io = "ret" /\ pos = "rd"
          /\ ~ret.ok /\ ret.err = "Timeout"
          /\ cfg.retry_payload_on_http_timeout
    /\ (/\ stage = "primary" /\ io = "ret" /\ ~ret.ok
        /\ ~(ret.err = "Timeout" /\ cfg.retry_payload_on_http_timeout)) =>
          result' = ReturnErr(ret) /\ stage' = "done"
    /\ (stage = "primary_retry" /\ io = "ret" /\ ~ret.ok) =>
          result' = ReturnErr(ret) /\ stage' = "done"
    /\ stage \in PayloadStages => stage' \in PayloadStages \cup {"done"}

C6_Step ==
    /\ Len(out') <= cfg.max_response_len
    /\ (io' = "ret" /\ pos' = "rd" /\ ret'.ok) => Len(ret'.val) <= cfg.max_response_len
    /\ (io = "read" /\ out' # out /\ io' = "read") =>
          /\ starts_with(out', out)
          /\ Len(out') <= cfg.max_response_len
    /\ (io = "read" /\ ret'.err = "ResponseTooLarge") =>
          /\ io' = "ret"
          /\ \E chunk \in RxChunks(stage) : Len(out) + Len(chunk) > cfg.max_response_len

\* C6: the response framer never returns, and never holds, a buffer longer than
\* max_response_len: the cap is tested before each append, and a chunk that would
\* exceed it ends the framer with ResponseTooLarge.
C6_FramerWithinCap == [][C6_Step]_vars

C6_FramerOverflow ==
    /\ io = "ret" /\ pos = "rd" /\ ret.err = "ResponseTooLarge"
    /\ stage \in {"primary", "primary_retry"}

C7_Step ==
    /\ Len(merged') <= cfg.max_response_len
    /\ Len(raw') <= cfg.max_response_len
    /\ Len(out') <= cfg.max_response_len
    /\ result'.kind = "ok" => Len(result'.raw) <= cfg.max_response_len
    /\ (/\ stage = "followup" /\ io = "ret" /\ pos = "rd" /\ ret.ok /\ ret.val # <<>>
        /\ Len(raw) + Len(ret.val) > cfg.max_response_len) =>
          result' = ReturnErr(Err("ResponseTooLarge")) /\ stage' = "done"

\* C7: every accumulation buffer (the framer's output, the save-and-wait
\* accumulation, the raw response with its follow-up chunks) stays within
\* max_response_len, a returned raw response is within it, and a follow-up chunk
\* that would exceed it fails the request with ResponseTooLarge.
C7_BuffersWithinCap == [][C7_Step]_vars

C7_FollowupOverflow ==
    /\ stage = "followup" /\ io = "ret" /\ pos = "rd" /\ ret.ok
    /\ raw # <<>> /\ Len(raw) <= cfg.max_response_len
    /\ Len(raw) + Len(ret.val) > cfg.max_response_len

C8_Step ==
    stage = "finish" =>
       LET sc == parse_status_code(raw)
           body == http_body(raw)
       IN /\ (/\ cfg.require_body_on_success
              /\ sc.some /\ sc.v >= 200 /\ sc.v <= 299
              /\ sc.v \notin {204, 304}) =>
                IF body.some /\ body.v # <<>>
                THEN result'.kind = "ok"
                ELSE result' = ReturnErr(Err("BodyMissing"))
          /\ (sc.some /\ sc.v \in {204, 304}) => result'.kind = "ok"
          /\ result'.kind = "ok" => result'.raw = raw /\ result'.status_code = sc
          /\ stage' = "done"

\* C8: with require_body_on_success set, a response whose status is in 200..=299
\* and is neither 204 nor 304 is returned as Ok only when a parsed body is present
\* and non-empty, and fails with BodyMissing otherwise; 204 and 304 are exempt.
C8_BodyRequiredPolicy == [][C8_Step]_vars

C8_BodyMissingReturned ==
    stage = "done" /\ result.kind = "err" /\ result.err = "BodyMissing"

C9_Step ==
    stage = "start" =>
       /\ wire = <<>> /\ slept = <<>> /\ flushes = 0 /\ ~read_called
       /\ IF ~(cfg.channel \in 1..4) \/ req.url = <<>> \/ cfg.max_response_len = 0
          THEN /\ result'.kind = "err" /\ result'.err = "InvalidConfig"
               /\ stage' = "done"
               /\ wire' = <<>> /\ slept' = <<>> /\ flushes' = 0 /\ ~read_called'
          ELSE /\ stage' = "enter" /\ io' = "sleep" /\ result' = Pending
               /\ slept' = <<>> /\ wire' = <<>>

\* C9: validation rejects a channel outside 1..=4, an empty URL and a
\* max_response_len of 0 with InvalidConfig, each on its own, before the guard
\* sleep and before any byte is written to or read from the transport; a valid
\* configuration and request pass it.
C9_ValidationFirst == [][C9_Step]_vars

C9_ZeroCapRejected ==
    /\ stage = "done" /\ result.err = "InvalidConfig"
    /\ cfg.max_response_len = 0 /\ cfg.channel \in 1..4 /\ req.url # <<>>
    /\ wire = <<>> /\ slept = <<>>

\* C10: every call of request() eventually returns, a response or an error,
\* whatever the transport does, every wait in it being bounded by a timeout.
C10_RequestReturns == <>(stage = "done")

(***************************************************************************)
(* Command-mode acquisition.                                               *)
(***************************************************************************)
\* the framed escape response came back without an OK marker, or the framer
\* timed out on the first byte
EscapeNotAcked ==
    (ret.ok /\ ~contains_ok(ret.val)) \/ (~ret.ok /\ ret.err = "Timeout")

\* the controller is Ready: request() goes on with its first configuration command
Ready == stage' = "WKMOD" /\ pos' = "w1" /\ wbuf' = command_line(cfg, req, "WKMOD")

Failed(e) == stage' = "done" /\ result'.kind = "err" /\ result'.err = e

C11_Step ==
    cfg.enable_command_probe_fallback =>
       /\ (stage = "enter" /\ io = "sleep") =>
             /\ wire = <<>> /\ ~read_called
             /\ slept' = << [timer |-> "cmd_guard_time", ms |-> cfg.cmd_guard_time] >>
             /\ stage' = "enter" /\ wbuf' = ESCAPE /\ wire' = <<>>
       /\ (stage = "enter" /\ wire' # wire) =>
             /\ wire' = Take(ESCAPE, Len(wire')) /\ slept # <<>>
       /\ (stage = "enter" /\ io = "ret" /\ pos = "rd") =>
             /\ wire = ESCAPE
             /\ (ret.ok /\ contains_ok(ret.val)) => Ready
             /\ EscapeNotAcked => stage' = "probe" /\ wbuf' = PROBE /\ io' = "write"
             /\ (~ret.ok /\ ret.err # "Timeout") => Failed(ret.err)
       /\ stage' = "probe" => stage \in {"enter", "probe"}
       /\ (stage = "enter" /\ stage' = "probe") => wire = ESCAPE /\ EscapeNotAcked
       /\ (stage = "probe" /\ wire' # wire) =>
             /\ Len(wire') <= Len(ESCAPE \o PROBE)
             /\ wire' = Take(ESCAPE \o PROBE, Len(wire'))
       /\ (stage = "probe" /\ io' = "read" /\ io # "read") =>
             /\ wire = ESCAPE \o PROBE
             /\ first_timeout' = 2000 /\ idle_timeout' = cfg.at_idle_timeout
       /\ (stage = "probe" /\ io = "ret" /\ pos = "rd" /\ ret.ok) =>
             /\ wire = ESCAPE \o PROBE
             /\ contains_at_error(ret.val) => Failed("AtRejected")
             /\ (~contains_at_error(ret.val) /\ ~contains_ok(ret.val)) => Failed("BadResponse")
             /\ (contains_ok(ret.val) /\ ~contains_at_error(ret.val)) => Ready
       /\ (stage' = "WKMOD" /\ stage # "WKMOD") =>
             \/ stage = "enter" /\ ret.ok /\ contains_ok(ret.val)
             \/ /\ stage = "probe" /\ ret.ok
                /\ contains_ok(ret.val) /\ ~contains_at_error(ret.val)

C12_Step ==
    ~cfg.enable_command_probe_fallback =>
       /\ stage' # "probe"
       /\ (stage = "enter" /\ io = "ret" /\ pos = "rd") =>
             /\ (~ret.ok /\ ret.err = "Timeout") => Failed("Timeout")
             /\ (~ret.ok /\ ret.err = "Transport") => Failed("Transport")
             /\ (ret.ok /\ ~contains_ok(ret.val) /\ contains_at_error(ret.val)) =>
                   Failed("AtRejected")
             /\ (ret.ok /\ ~contains_ok(ret.val) /\ ~contains_at_error(ret.val)) =>
                   Failed("BadResponse")

\* C12: with probe fallback disabled the probe is never written and a non-OK
\* outcome of the escape exchange is returned as its own error: Timeout for a
\* first-byte timeout, Transport for a transport failure, AtRejected for a
\* response with an error marker, BadResponse for one with neither marker.
C12_NoProbePropagates == [][C12_Step]_vars

(***************************************************************************)
(* The AT exchange primitives.                                             *)
(***************************************************************************)
C13_Step ==
    stage \in ConfigStages \cup BestEffortStages =>
       /\ (io = "ret" /\ pos = "w1" /\ ret.ok) =>
             /\ ends_with(wire, command_line(cfg, req, stage))
             /\ stage' = stage /\ pos' = "w2" /\ wbuf' = CRLF
       /\ (io = "ret" /\ pos = "w2" /\ ret.ok) =>
             /\ ends_with(wire, command_line(cfg, req, stage) \o CRLF)
             /\ stage' = stage /\ io' = "read"
             /\ first_timeout' = cfg.at_first_timeout
             /\ idle_timeout' = cfg.at_idle_timeout
       /\ (io = "ret" /\ pos = "rd" /\ ret.ok) =>
             IF find_subslice(ret.val, ERR_COLON) # 0 \/ find_subslice(ret.val, ERROR) # 0
             THEN cmd_ret' = Err("AtRejected")
             ELSE IF ~contains_ok(ret.val)
             THEN cmd_ret' = Err("BadResponse")
             ELSE /\ cmd_ret'.ok
                  /\ cmd_ret'.val = IF stage \in QueryStages THEN ret.val ELSE <<>>

\* C13: send_ok_cmd and send_query_cmd write the command line, then CRLF, frame
\* the response with at_first_timeout / at_idle_timeout and classify it error
\* first: AtRejected when an error marker is present (an OK marker
\* notwithstanding), else BadResponse when no OK marker is present (the empty
\* response included), else success, send_query_cmd returning the framed bytes.
C13_ExchangeClassification == [][C13_Step]_vars

C13_QueryReplyReturned ==
    /\ stage = "RUNST" /\ pos = "w1" /\ io = "write"
    /\ cmd_ret.ok /\ contains_ok(cmd_ret.val)

(***************************************************************************)
(* The best-effort steps.                                                  *)
(***************************************************************************)
\* the exchange of the current stage fails in this state: write_all or the
\* framer returned an error, or the framed response is rejected
ExchangeFails ==
    /\ io = "ret"
    /\ \/ ~ret.ok
       \/ pos = "rd" /\ (contains_at_error(ret.val) \/ ~contains_ok(ret.val))

C14_Step ==
    /\ stage = "DEBUG" => cfg.enable_modem_debug_urc
    /\ stage \in QueryStages => cfg.query_link_status_before_send
    /\ stage \in BestEffortStages => stage' # "done" /\ result' = Pending
    /\ (stage \in BestEffortStages /\ (ExchangeFails \/ (io = "ret" /\ pos = "rd"))) =>
          LET n == CASE stage = "DEBUG" ->
                           IF cfg.query_link_status_before_send THEN "CREG" ELSE "SAVE"
                     [] stage = "CREG" -> "RUNST"
                     [] stage = "RUNST" -> "SAVE"
          IN /\ stage' = n /\ pos' = "w1" /\ io' = "write"
             /\ wbuf' = IF n = "SAVE" THEN AT_S ELSE command_line(cfg, req, n)
             /\ wire' = wire

\* C14: a failure of the AT+DEBUG=ON exchange, when debug notifications are
\* enabled, and of the AT+CREG? or AT+RUNST? exchange, when link-status
\* querying is enabled, is ignored whatever its kind: AT+RUNST? still follows a
\* failed AT+CREG?, and the sequence goes on to the save command AT+S.
C14_BestEffortNeverAborts == [][C14_Step]_vars

C14_SaveAfterFailedQuery ==
    /\ stage = "SAVE" /\ pos = "w1" /\ io = "write" /\ wbuf = AT_S
    /\ ~cmd_ret.ok /\ cmd_ret.err = "ResponseTooLarge"
    /\ find_subslice(wire, AT_RUNST) # 0

(***************************************************************************)
(* The parsers and encoders called on their own: a caller picks an         *)
(* argument, the function is applied to it once.                           *)
(***************************************************************************)
COMMA == <<44>>                                            \* b","
SP_OK == <<32, 79, 75>>                                    \* b" OK"
ONE == <<49>>                                              \* b"1"
ONE_TWO == <<49, 44, 50>>                                  \* b"1,2"
SEVEN_NINE == <<55, 44, 57>>                               \* b"7,9"

\* the codes written after the last comma of a vendor line
LineCodes == {0, 200, 404, 65535, 65536}

\* one vendor line: marker k, the fields before the last comma, the code n,
\* and what follows the digits on the line
MarkerLine(k, field, n, rest) ==
    CODE_MARKERS[k] \o field \o COMMA \o to_decimal(n) \o rest

\* buffers holding one vendor CODE line
OneMarkerInputs ==
    { [form |-> "one_marker", k |-> k, n |-> n,
       raw |-> pre \o MarkerLine(k, field, n, rest) \o tail] :
         k \in 1..Len(CODE_MARKERS), n \in LineCodes,
         pre \in {<<>>, HI \o CRLF, RX_200 \o CRLF},
         field \in {<<>>, ONE, ONE_TWO},
         rest \in {<<>>, SP_OK},
         tail \in {<<>>, CRLF, <<10>>, <<13>> \o SEVEN_NINE, CRLF \o RX_404,
                   <<10>> \o SEVEN_NINE} }

HTTP_404_BODY == <<72, 84, 84, 80, 47, 49, 46, 49, 32, 52, 48, 52, 32, 78, 111, 116, 32,
                   70, 111, 117, 110, 100, 13, 10, 13, 10, 98, 111, 100, 121>>
                                                    \* b"HTTP/1.1 404 Not Found\r\n\r\nbody"

\* the code a vendor line of kind k carries in the two-line buffers
KindCode(k) == 100 * k + 1

\* a vendor line of kind k: with a comma and its code, or with neither
KindLine(k, parses) ==
    IF parses THEN MarkerLine(k, ONE, KindCode(k), <<>>) \o CRLF
    ELSE CODE_MARKERS[k] \o SP_OK \o CRLF

\* buffers holding two vendor lines of different kinds, a first, and possibly an
\* HTTP status line before or after them
TwoLineInputs ==
    { [form |-> "priority", a |-> a, b |-> b, pa |-> pa, pb |-> pb, http |-> h,
       raw |-> (IF h = "before" THEN HTTP_404_BODY \o CRLF ELSE <<>>)
               \o KindLine(a, pa) \o KindLine(b, pb)
               \o (IF h = "after" THEN HTTP_404_BODY ELSE <<>>)] :
         a \in 1..Len(CODE_MARKERS), b \in 1..Len(CODE_MARKERS),
         pa \in BOOLEAN, pb \in BOOLEAN, h \in {"none", "before", "after"} }

TwoMarkerInputs == {x \in TwoLineInputs : x.a # x.b}

\* buffers without a vendor line
NoMarkerInputs ==
    { [form |-> "fallback", http |-> h, raw |-> r] :
         h \in {"only"}, r \in {HTTP_404_BODY, HI \o CRLF \o HTTP_404_BODY} }
    \cup { [form |-> "fallback", http |-> h, raw |-> r] :
         h \in {"none"}, r \in {<<>>, HI, RX_OK, FS_HTTP_OK \o ONE_TWO} }

STATUS_200 == <<72, 84, 84, 80, 47, 49, 46, 49, 32, 50, 48, 48, 32, 79, 75>>
                                                    \* b"HTTP/1.1 200 OK"
HOST_HEADER == <<72, 111, 115, 116, 58, 32, 97>>               \* b"Host: a"
CL_ZERO == <<67, 111, 110, 116, 101, 110, 116, 45, 76, 101, 110, 103, 116, 104, 58, 32, 48>>
                                                    \* b"Content-Length: 0"
CL_ZERO_LOWER == <<99, 111, 110, 116, 101, 110, 116, 45, 108, 101, 110, 103, 116, 104, 58, 48>>
                                                    \* b"content-length:0"
CL_ZERO_TAB == <<67, 79, 78, 84, 69, 78, 84, 45, 76, 69, 78, 71, 84, 72, 58, 9, 48, 48>>
                                                    \* b"CONTENT-LENGTH:\t00"
BODY_TEXT == <<98, 111, 100, 121>>                        \* b"body"

\* responses with a status line, a Content-Length header declaring 0 and a
\* header/body boundary, followed by `after`
ZeroLengthInputs ==
    { [form |-> "cl_zero", after |-> after,
       raw |-> pre \o STATUS_200 \o nl \o other \o clh \o nl \o nl \o after] :
         pre \in {<<>>, RX_URC_200, HI},
         nl \in {CRLF, <<10>>},
         other \in {<<>>, HOST_HEADER \o <<10>>},
         clh \in {CL_ZERO, CL_ZERO_LOWER, CL_ZERO_TAB},
         after \in {<<>>, HI, BODY_TEXT \o CRLF, CRLF \o FS_HTTP_OK, FS_AT,
                    FS_HTTP_OK \o ONE, RX_URC_200} }

LowerCase(s) == [i \in 1..Len(s) |-> to_ascii_lowercase(s[i])]

\* the values a Content-Length header declares
DeclaredLengths == {1, 2, 4, 300}

\* responses with a status line, a Content-Length header declaring n > 0 and a
\* header/body boundary, followed by `after`
DeclaredLengthInputs ==
    { [form |-> "cl_n", n |-> n,
       raw |-> pre \o STATUS_200 \o nl \o other \o clh \o to_decimal(n) \o nl \o nl \o after] :
         pre \in {<<>>, RX_URC_200},
         nl \in {CRLF, <<10>>},
         other \in {<<>>, HOST_HEADER \o <<10>>},
         clh \in {CONTENT_LENGTH \o SPACE, LowerCase(CONTENT_LENGTH)},
         n \in DeclaredLengths,
         after \in {<<>>, HI, BODY_TEXT \o CRLF, HI \o LFLF \o HI, HI \o CRLFCRLF \o HI,
                    FS_AT, FS_HTTP_OK \o ONE, HI \o CRLF \o FS_HTTP_OK} }

HELLO == <<72, 69, 76, 76, 79>>                           \* b"HELLO"

\* content after a vendor line, with what is left of it once trimmed
UrcContents ==
    { [text |-> HELLO, trimmed |-> HELLO],
      [text |-> HELLO \o SPACE, trimmed |-> HELLO],
      [text |-> HI \o <<10>> \o HELLO, trimmed |-> HI \o <<10>> \o HELLO],
      [text |-> <<>>, trimmed |-> <<>>] }

\* buffers without a status line and without a blank line: one vendor CODE line,
\* content, and the notifications that follow it
UrcBodyInputs ==
    { x \in { [form |-> "urc", content |-> c.trimmed,
               raw |-> pre \o MarkerLine(k, <<48>>, 200, ws) \o c.text \o tail] :
                 pre \in {<<>>, HI \o CRLF},
                 k \in 1..Len(CODE_MARKERS),
                 ws \in {CRLF, <<10>>, SPACE},
                 c \in UrcContents,
                 tail \in {<<>>, CRLF \o FS_HTTP_OK, <<10>> \o FS_HTTP_OK, FS_HTTP_OK,
                           <<10>> \o FS_HTTP_OK \o ONE \o CRLF \o FS_HTTP_OK} } :
        find_subslice(x.raw, LFLF) = 0 /\ find_subslice(x.raw, CRLFCRLF) = 0 }

CONTENT_TYPE == <<67, 111, 110, 116, 101, 110, 116, 45, 84, 121, 112, 101>>
                                                    \* "Content-Type"
APPLICATION_JSON == <<97, 112, 112, 108, 105, 99, 97, 116, 105, 111, 110, 47, 106, 115, 111, 110>>
                                                    \* "application/json"
Filler(n) == [i \in 1..n |-> 97]                           \* "aaa...", n bytes

\* the headers a caller may pass; the two long values put a one-header line
\* at the limit and one byte over it
HeaderValues ==
    { [name |-> CONTENT_TYPE, value |-> APPLICATION_JSON],
      [name |-> <<65>>, value |-> <<>>],
      [name |-> <<>>, value |-> <<98>>],
      [name |-> <<88>>, value |-> Filler(HeadLineLimit - Len(<<88>> \o COLON_SP \o HD_SEP))],
      [name |-> <<88>>, value |-> Filler(HeadLineLimit - Len(<<88>> \o COLON_SP \o HD_SEP) + 1)] }

\* the bearer tokens a caller may pass; the long ones put a token-only line at
\* the limit and one byte over it
TokenValues ==
    { NoneBytes, [some |-> TRUE, v |-> <<116>>],
      [some |-> TRUE, v |-> Filler(HeadLineLimit - Len(AUTH_BEARER \o HD_SEP))],
      [some |-> TRUE, v |-> Filler(HeadLineLimit - Len(AUTH_BEARER \o HD_SEP) + 1)] }

HeadLineInputs ==
    { [form |-> "head_line", headers |-> hs, bearer_token |-> tk] :
         hs \in {<<>>} \cup {<<h>> : h \in HeaderValues}
                \cup {<<h, g>> : h \in HeaderValues, g \in HeaderValues},
         tk \in TokenValues }

GARBAGE == <<103, 97, 114, 98, 97, 103, 101>>               \* b"garbage"

\* the pieces the marker buffers are made of
MarkerPieces ==
    { CRLF, <<10>>, <<79, 75>>, OK_CRLF, OK_LF, <<111, 107>>, <<79>>, <<75>>, GARBAGE,
      FS_HTTP_OK, ERR_COLON, ERROR, <<69, 82, 82>>, ONE }

\* buffers of up to three pieces
MarkerInputs ==
    { [form |-> "markers", raw |-> r] :
         r \in {<<>>} \cup MarkerPieces
               \cup {x \o y : x \in MarkerPieces, y \in MarkerPieces}
               \cup {x \o y \o z : x \in MarkerPieces, y \in MarkerPieces,
                                   z \in MarkerPieces} }

Inputs(f) ==
    CASE f = "parse_status_code" -> OneMarkerInputs \cup TwoMarkerInputs \cup NoMarkerInputs
      [] f = "contains_ok" -> MarkerInputs
      [] f = "contains_at_error" -> MarkerInputs
      [] f = "build_head_line" -> HeadLineInputs
      [] f = "http_body" -> ZeroLengthInputs \cup DeclaredLengthInputs \cup UrcBodyInputs

PureFunctions ==
    {"parse_status_code", "http_body", "build_head_line", "contains_ok", "contains_at_error"}

PureInit ==
    /\ cfg = BaseConfig /\ req = ReqGet
    /\ CallStart
    /\ \E f \in PureFunctions : fn = f /\ arg \in Inputs(f)
    /\ val = NotApplied

Request == <<stage, pos, io, wbuf, Framer, ret, LoopLocals, Obs, cmd_ret, result>>

Apply_parse_status_code ==
    /\ fn = "parse_status_code" /\ ~val.applied
    /\ val' = Applied(parse_status_code(arg.raw))
    /\ UNCHANGED <<cfg, req, fn, arg, Request>>

Apply_http_body ==
    /\ fn = "http_body" /\ ~val.applied
    /\ val' = Applied(http_body(arg.raw))
    /\ UNCHANGED <<cfg, req, fn, arg, Request>>

\* request(), client.rs 142-143: build_head_line(..).map_err(DtuAtError::InvalidConfig)
head_line_result(headers, bearer_token) ==
    LET h == build_head_line(headers, bearer_token)
    IN IF h.ok THEN Ok(h.line) ELSE InvalidConfig("head_line")

Apply_build_head_line ==
    /\ fn = "build_head_line" /\ ~val.applied
    /\ val' = Applied(head_line_result(arg.headers, arg.bearer_token))
    /\ UNCHANGED <<cfg, req, fn, arg, Request>>

Apply_contains_ok ==
    /\ fn = "contains_ok" /\ ~val.applied
    /\ val' = Applied(contains_ok(arg.raw))
    /\ UNCHANGED <<cfg, req, fn, arg, Request>>

Apply_contains_at_error ==
    /\ fn = "contains_at_error" /\ ~val.applied
    /\ val' = Applied(contains_at_error(arg.raw))
    /\ UNCHANGED <<cfg, req, fn, arg, Request>>

PureNext ==
    \/ Apply_parse_status_code \/ Apply_http_body \/ Apply_build_head_line
    \/ Apply_contains_ok \/ Apply_contains_at_error

PureSpec == PureInit /\ [][PureNext]_vars

(***************************************************************************)
(* Status parsing.                                                         *)
(***************************************************************************)
\* C15 as stated: for a buffer holding one of the five vendor CODE lines,
\* parse_status_code returns the number its digits after the last comma form.
C15_CodeAfterLastComma ==
    (fn = "parse_status_code" /\ val.applied /\ arg.form = "one_marker") =>
       val.v = Some(arg.n)

\* C15, amended: for a buffer holding one of the five vendor CODE lines,
\* parse_status_code returns the number formed by the digits after the last
\* comma of the marker's line, saturated at u16::MAX (65535).
C15_CodeAfterLastCommaSaturated ==
    (fn = "parse_status_code" /\ val.applied /\ arg.form = "one_marker") =>
       val.v = Some(IF arg.n > 65535 THEN 65535 ELSE arg.n)

C15_SaturatedCodeParsed ==
    /\ fn = "parse_status_code" /\ val.applied /\ arg.form = "one_marker"
    /\ arg.n > 65535 /\ val.v = Some(65535)

\* the kinds of the vendor lines of a two-line buffer that carry a code
ParsingKinds(a) == (IF a.pa THEN {a.a} ELSE {}) \cup (IF a.pb THEN {a.b} ELSE {})

\* C16: the vendor markers are tried in the order INFO, SUCCESS, REDIRECT,
\* CLIENT ERROR, SERVER ERROR wherever they stand in the buffer and the code
\* is the one of the first that yields one; only when none does is the code
\* read after the first space of an "HTTP/1." status line
\* (b"HTTP/1.1 404 Not Found\r\n\r\nbody" gives 404); without either the
\* status is absent.
C16_MarkerPriorityAndFallback ==
    (fn = "parse_status_code" /\ val.applied) =>
       /\ arg.form = "priority" =>
             IF ParsingKinds(arg) # {}
             THEN val.v = Some(KindCode(Min(ParsingKinds(arg))))
             ELSE val.v = IF arg.http = "none" THEN None ELSE Some(404)
       /\ arg.form = "fallback" =>
             val.v = IF arg.http = "none" THEN None ELSE Some(404)
       /\ (arg.form = "fallback" /\ arg.raw = HTTP_404_BODY) => val.v = Some(404)

C16_LaterMarkerWins ==
    /\ fn = "parse_status_code" /\ val.applied /\ arg.form = "priority"
    /\ arg.a > arg.b /\ arg.pa /\ arg.pb /\ arg.http = "before"
    /\ val.v = Some(KindCode(arg.b))

(***************************************************************************)
(* Body extraction.                                                        *)
(***************************************************************************)
\* C17 as stated: a response with a status line, a boundary and a
\* Content-Length of 0 has an explicit empty body whatever follows the boundary.
C17_ZeroLengthEmptyBody ==
    (fn = "http_body" /\ val.applied /\ arg.form = "cl_zero") =>
       val.v = [some |-> TRUE, v |-> <<>>]

\* C17, amended: a response with a status line, a boundary and a Content-Length
\* of 0 has an explicit empty body whatever follows the boundary, except that
\* no body is returned when the bytes after the boundary start with "FS@".
C17_ZeroLengthEmptyBodyUnlessUrc ==
    (fn = "http_body" /\ val.applied /\ arg.form = "cl_zero") =>
       val.v = IF starts_with(arg.after, FS_AT) THEN NoneBytes
               ELSE [some |-> TRUE, v |-> <<>>]

C17_TrailingBytesDropped ==
    /\ fn = "http_body" /\ val.applied /\ arg.form = "cl_zero"
    /\ arg.after = BODY_TEXT \o CRLF /\ val.v = [some |-> TRUE, v |-> <<>>]

(***************************************************************************)
(* Header-line encoding.                                                   *)
(***************************************************************************)
EXAMPLE_HEAD_LINE == <<67, 111, 110, 116, 101, 110, 116, 45, 84, 121, 112, 101, 58, 32, 97, 112, 112, 108, 105, 99, 97, 116, 105, 111, 110, 47, 106, 115, 111, 110, 91, 48, 68, 93, 91, 48, 65, 93>>
                                   \* "Content-Type: application/json[0D][0A]"
EXAMPLE_TOKEN_LINE == <<65, 117, 116, 104, 111, 114, 105, 122, 97, 116, 105, 111, 110, 58, 32, 66, 101, 97, 114, 101, 114, 32, 116, 91, 48, 68, 93, 91, 48, 65, 93>>
                                   \* "Authorization: Bearer t[0D][0A]"

\* the rendered entries of an argument, the bearer token last
HeadItems(a) ==
    [i \in 1..Len(a.headers) |-> a.headers[i].name \o COLON_SP \o a.headers[i].value]
    \o (IF a.bearer_token.some THEN <<AUTH_BEARER \o a.bearer_token.v>> ELSE <<>>)

\* every entry followed by the separator token
RECURSIVE Terminated(_)
Terminated(items) ==
    IF items = <<>> THEN <<>> ELSE Head(items) \o HD_SEP \o Terminated(Tail(items))

\* C18: build_head_line renders the headers in insertion order as "name: value"
\* joined by "[0D][0A]", the bearer token last as "Authorization: Bearer <token>",
\* and ends a non-empty line with one "[0D][0A]"; no header and no token give
\* the empty line; an empty header name, or a line longer than 256 bytes (256
\* is accepted), fails with InvalidConfig.
C18_HeadLineEncoding ==
    (fn = "build_head_line" /\ val.applied) =>
       LET line == Terminated(HeadItems(arg)) IN
       /\ Len(HD_SEP) = 8
       /\ IF \E i \in 1..Len(arg.headers) : arg.headers[i].name = <<>>
          THEN ~val.v.ok /\ val.v.err = "InvalidConfig"
          ELSE IF Len(line) > 256
          THEN ~val.v.ok /\ val.v.err = "InvalidConfig"
          ELSE val.v.ok /\ val.v.val = line
       /\ (arg.headers = <<>> /\ ~arg.bearer_token.some) => val.v = Ok(<<>>)
       /\ (/\ arg.headers = << [name |-> CONTENT_TYPE, value |-> APPLICATION_JSON] >>
           /\ ~arg.bearer_token.some) => val.v = Ok(EXAMPLE_HEAD_LINE)
       /\ (arg.headers = <<>> /\ arg.bearer_token = [some |-> TRUE, v |-> <<116>>]) =>
             val.v = Ok(EXAMPLE_TOKEN_LINE)

C18_LineAtLimitAccepted ==
    /\ fn = "build_head_line" /\ val.applied
    /\ val.v.ok /\ Len(val.v.val) = 256 /\ Len(arg.headers) = 1

(***************************************************************************)
(* Marker detection.                                                       *)
(***************************************************************************)
\* pat stands at position i of s
At(s, i, pat) ==
    /\ i >= 1 /\ i + Len(pat) - 1 <= Len(s)
    /\ \A j \in 1..Len(pat) : s[i + j - 1] = pat[j]

Contains(s, pat) == \E i \in 1..Len(s) : At(s, i, pat)
EndsWith(s, pat) == At(s, Len(s) - Len(pat) + 1, pat)

\* C19: a buffer is a success iff it contains CR LF "OK" CR LF or LF "OK" LF, or
\* ends with "OK" CR LF or "OK" LF, or contains "FS@HTTP OK:"; it is an error
\* iff it contains "ERR:" or "ERROR"; b"\r\nOK\r\n", b"garbageOK\n" and
\* b"garbageFS@HTTP OK:1" are successes, b"ERROR\r\n" is an error and no success.
C19_MarkerDetection ==
    /\ (fn = "contains_ok" /\ val.applied) =>
          /\ val.v <=> \/ Contains(arg.raw, <<13, 10, 79, 75, 13, 10>>)
                       \/ Contains(arg.raw, <<10, 79, 75, 10>>)
                       \/ EndsWith(arg.raw, <<79, 75, 13, 10>>)
                       \/ EndsWith(arg.raw, <<79, 75, 10>>)
                       \/ Contains(arg.raw, <<70, 83, 64, 72, 84, 84, 80, 32, 79, 75, 58>>)
          /\ arg.raw = <<13, 10, 79, 75, 13, 10>> => val.v
          /\ arg.raw = <<103, 97, 114, 98, 97, 103, 101, 79, 75, 10>> => val.v
          /\ arg.raw = <<103, 97, 114, 98, 97, 103, 101, 70, 83, 64, 72, 84, 84, 80, 32, 79, 75, 58, 49>> => val.v
          /\ arg.raw = <<69, 82, 82, 79, 82, 13, 10>> => ~val.v
    /\ (fn = "contains_at_error" /\ val.applied) =>
          /\ val.v <=> \/ Contains(arg.raw, <<69, 82, 82, 58>>)
                       \/ Contains(arg.raw, <<69, 82, 82, 79, 82>>)
          /\ arg.raw = <<69, 82, 82, 79, 82, 13, 10>> => val.v

C19_TrailingOkIsSuccess ==
    /\ fn = "contains_ok" /\ val.applied /\ val.v
    /\ arg.raw = GARBAGE \o OK_LF

(***************************************************************************)
(* The follow-up collector.                                                *)
(***************************************************************************)
\* the poll that just returned came back timed out or empty
PollMissed ==
    /\ io = "ret" /\ pos = "rd"
    /\ (~ret.ok /\ ret.err = "Timeout") \/ (ret.ok /\ ret.val = <<>>)

\* the poll that just returned brought a chunk the accumulation has room for
PollChunk ==
    /\ io = "ret" /\ pos = "rd" /\ ret.ok /\ ret.val # <<>>
    /\ Len(raw) + Len(ret.val) <= cfg.max_response_len

\* the loop goes round: back at the while head, inside the collector
PollingContinues == stage' = "followup" /\ io' = "loop" /\ result' = Pending

\* the collector returns the accumulation to request()
CollectorStops == stage' = "finish" /\ result' = Pending

C20_Step ==
    /\ (stage' = "followup" /\ stage # "followup") => ~appended' /\ io' = "loop"
    /\ stage = "followup" =>
          /\ io = "loop" =>
                IF now < deadline
                THEN stage' = "followup" /\ io' = "read" /\ raw' = raw
                ELSE CollectorStops /\ raw' = raw
          /\ PollMissed =>
                /\ raw' = raw
                /\ IF appended THEN CollectorStops
                   ELSE PollingContinues /\ ~appended'
          /\ PollChunk =>
                /\ raw' = raw \o ret.val
                /\ IF At(ret.val, 1, <<70, 83, 64>>)
                   THEN PollingContinues /\ appended'
                   ELSE CollectorStops

\* C20: the follow-up collector polls until its deadline unless stopped before;
\* a timed-out or empty poll stops it only when a chunk was appended before, and
\* polling goes on otherwise; a non-empty chunk that does not start with "FS@"
\* is appended and ends the loop at once; one that starts with "FS@" is
\* appended and the loop goes on.
C20_FollowupStopRules == [][C20_Step]_vars

C20_MissAfterNotification ==
    /\ stage = "followup" /\ PollMissed /\ appended
    /\ Len(raw) > Len(FS_AT)


(***************************************************************************)
(* The response framer's outcomes.                                         *)
(***************************************************************************)
\* the framer returns r to its caller in this step
FramerReturns(r) == io = "read" /\ io' = "ret" /\ pos' = "rd" /\ ret' = r

C21_Step ==
    /\ got_any' <=> out' # <<>>
    /\ io = "read" =>
          /\ \/ io' = "read" /\ got_any' /\ starts_with(out', out) /\ out' # out
             \/ FramerReturns(Ok(out))
             \/ FramerReturns(Err("Timeout")) /\ out = <<>>
             \/ FramerReturns(Err("Transport"))
             \/ FramerReturns(Err("ResponseTooLarge"))
          \* the wait of the read, seen on the clock of a polling loop
          /\ stage \in LoopStages =>
                now' - now \in {ReadLatency,
                                IF out = <<>> THEN first_timeout ELSE idle_timeout}
          /\ (stage \in LoopStages /\ ret'.err = "Timeout") =>
                now' - now = first_timeout

\* C21: the framer's first read waits the first-byte timeout and every read
\* after bytes were received waits the idle timeout; a timeout with nothing
\* received fails with Timeout, a timeout after bytes or a 0-byte read returns
\* the bytes received so far as success (the empty buffer at the first read),
\* and a transport read error is returned as Transport.
C21_FramerOutcomes == [][C21_Step]_vars

C21_EmptyFrameAtEndOfStream ==
    /\ stage = "primary" /\ io = "ret" /\ pos = "rd"
    /\ ret = Ok(<<>>) /\ read_called


(***************************************************************************)
(* Body extraction.                                                        *)
(***************************************************************************)
\* where pat first occurs in s (0: nowhere)
FirstAt(s, pat) ==
    LET hits == {i \in 1..Len(s) : At(s, i, pat)} IN IF hits = {} THEN 0 ELSE Min(hits)

\* the bytes of s after the first occurrence of pat
After(s, pat) == From(s, FirstAt(s, pat) + Len(pat))

\* the bytes after the header/body boundary of the response in s: the first
\* CRLF CRLF after the status line, and the first LF LF when there is none
AfterBoundary(s) ==
    LET http == From(s, FirstAt(s, <<72, 84, 84, 80, 47, 49, 46>>))
    IN IF Contains(http, <<13, 10, 13, 10>>) THEN After(http, <<13, 10, 13, 10>>)
       ELSE After(http, <<10, 10>>)

\* C22: for a response with a status line, a boundary and a Content-Length
\* header declaring n > 0, http_body returns the first n bytes after the
\* boundary when at least n are there, all the bytes after the boundary when
\* fewer are, and no body when the bytes after the boundary start with "FS@".
C22_DeclaredLengthBody ==
    (fn = "http_body" /\ val.applied /\ arg.form = "cl_n") =>
       \E body \in {AfterBoundary(arg.raw)} :
          val.v = IF At(body, 1, <<70, 83, 64>>) THEN NoneBytes
                  ELSE IF Len(body) >= arg.n THEN Some(SubSeq(body, 1, arg.n))
                  ELSE Some(body)

C22_ShortBodyReturnedWhole ==
    /\ fn = "http_body" /\ val.applied /\ arg.form = "cl_n"
    /\ arg.n = 4 /\ val.v = Some(HI)


\* C23: for a buffer without a status line and without a blank line that holds
\* a vendor CODE line followed by content, http_body returns the bytes after
\* the line's comma, digits and whitespace up to the next "FS@" or the end of
\* the buffer, trimmed of ASCII whitespace, and never a body that is empty or
\* starts with "FS@": the content that stands before the first notification.
C23_UrcBodyUpToNextNotification ==
    (fn = "http_body" /\ val.applied /\ arg.form = "urc") =>
       /\ val.v = IF arg.content = <<>> THEN NoneBytes ELSE Some(arg.content)
       /\ val.v.some => val.v.v # <<>> /\ ~At(val.v.v, 1, <<70, 83, 64>>)


(***************************************************************************)
(* Payload transmission.                                                   *)
(***************************************************************************)
\* the body, or one space byte for an empty body
BodyOrSpace == IF Len(req.body) > 0 THEN req.body ELSE <<32>>

\* write_all of a payload stage has just returned Ok
PayloadSent(s) == stage' = s /\ io' = "ret" /\ pos' = "w1" /\ ret'.ok /\ io # "ret"

C24_Step ==
    /\ (stage' \in {"payload", "payload_retry"} /\ stage' # stage) =>
          wbuf' = BodyOrSpace /\ io' = "write" /\ wire' = wire
    /\ stage \in {"payload", "payload_retry"} =>
          /\ wire' # wire => wire' = wire \o SubSeq(wbuf, 1, Len(wire') - Len(wire))
          /\ (wbuf' # wbuf /\ stage' = stage) =>
                wbuf = SubSeq(wbuf, 1, Len(wbuf) - Len(wbuf')) \o wbuf'
    /\ PayloadSent("payload") => PayloadRegion' = BodyOrSpace
    /\ PayloadSent("payload_retry") => PayloadRegion' = BodyOrSpace \o BodyOrSpace

\* C24: send_payload writes exactly the body bytes when the body is not empty
\* and exactly one space byte (0x20) when it is; the resend after a timed-out
\* primary response writes the same bytes as the first send.
C24_PayloadVerbatimOrSpace == [][C24_Step]_vars

C24_SpaceSentForEmptyBody ==
    /\ stage = "payload" /\ io = "ret" /\ pos = "w1" /\ ret.ok
    /\ req.body = <<>> /\ PayloadRegion = <<32>>


(***************************************************************************)
(* The write primitive.                                                    *)
(***************************************************************************)
\* write_all returned an error to the stage that called it
WriteAllFailed == io = "ret" /\ pos \in {"w1", "w2"} /\ ~ret.ok

\* write_all itself: write the remainder until it is accepted, flush once
WriteAllStep ==
    /\ io = "write" =>
          /\ Len(wbuf) > 0
          /\ \/ \E n \in 1..Len(wbuf) :
                   /\ wire' = wire \o SubSeq(wbuf, 1, n)
                   /\ wbuf' = SubSeq(wbuf, n + 1, Len(wbuf))
                   /\ io' = IF n < Len(wbuf) THEN "write" ELSE "flush"
                   /\ flushes' = flushes
             \/ /\ io' = "ret" /\ ret' \in {Err("WriteZero"), Err("Transport")}
                /\ wire' = wire /\ flushes' = flushes
    /\ io = "flush" =>
          /\ wbuf = <<>> /\ io' = "ret" /\ wire' = wire
          /\ \/ ret'.ok /\ flushes' = flushes + 1
             \/ ret' = Err("Transport") /\ flushes' = flushes
    /\ flushes' # flushes => io = "flush"
    /\ (io # "ret" /\ io' = "ret" /\ pos' \in {"w1", "w2"} /\ ret'.ok) =>
          io = "flush" /\ flushes' = flushes + 1

C25_Step ==
    /\ WriteAllStep
    /\ WriteAllFailed => result' = ReturnErr(ret) /\ stage' = "done"

\* C25 as stated: write_all writes the remainder until all bytes are accepted
\* and then flushes once; an accepted count of 0 fails with WriteZero without a
\* flush, a write or flush error is returned as Transport, and either failure
\* aborts the request.
C25_WriteFailureAborts == [][C25_Step]_vars

C25_AmendedStep ==
    /\ WriteAllStep
    /\ WriteAllFailed =>
          IF stage \in {"DEBUG", "CREG", "RUNST"}
          THEN result' = Pending /\ stage' \notin {stage, "done"}
          ELSE result' = ReturnErr(ret) /\ stage' = "done"

\* C25, amended: write_all writes the remainder until all bytes are accepted
\* and then flushes once; an accepted count of 0 fails with WriteZero without a
\* flush, a write or flush error is returned as Transport, and either failure
\* aborts the request except in the best-effort steps (AT+DEBUG=ON and the two
\* link-status queries), after which the request goes on.
C25_WriteFailureAbortsUnlessBestEffort == [][C25_AmendedStep]_vars

C25_WriteZeroSurvived ==
    /\ cmd_ret = Err("WriteZero") /\ result = Pending
    /\ stage = "SAVE" /\ flushes > 0


(***************************************************************************)
(* The device-level failure notification.                                  *)
(***************************************************************************)
HTTP_FAIL_NOTE == <<70, 83, 64, 72, 84, 84, 80, 32, 70, 65, 73, 76, 58>>   \* b"FS@HTTP FAIL:"

\* the DtuAtError variants, by name
DtuAtErrors ==
    {"Transport", "Timeout", "WriteZero", "InvalidConfig", "AtRejected", "BadResponse",
     "ResponseTooLarge", "BodyMissing", "HttpFail"}

\* the save-and-wait accumulation once the chunk just polled was added within the cap
Retained ==
    IF Len(merged) + Len(ret.val) <= cfg.max_response_len THEN merged \o ret.val ELSE merged

C26_Step ==
    /\ result'.kind = "err" => result'.err \in DtuAtErrors \ {"HttpFail"}
    /\ (/\ stage = "SAVE" /\ io = "ret" /\ pos = "rd" /\ ret.ok /\ ret.val # <<>>
        /\ Contains(Retained, HTTP_FAIL_NOTE)) =>
          /\ stage' = "done"
          /\ result' = IF Contains(Retained, <<69, 82, 82, 58>>)
                          \/ Contains(Retained, <<69, 82, 82, 79, 82>>)
                       THEN ReturnErr(Err("AtRejected"))
                       ELSE ReturnErr(Err("BadResponse"))
    /\ (/\ stage \in {"primary", "primary_retry"} /\ io = "ret" /\ pos = "rd" /\ ret.ok
        /\ Contains(ret.val, HTTP_FAIL_NOTE)) =>
          stage' = "followup" /\ result' = Pending /\ raw' = ret.val
    /\ (stage = "followup" /\ PollChunk /\ Contains(ret.val, HTTP_FAIL_NOTE)) =>
          result' = Pending /\ raw' = raw \o ret.val
    /\ (stage = "finish" /\ raw = HTTP_FAIL_NOTE) =>
          result' = ReturnOk(None, raw)

C27_Step ==
    \* the collector starts from the primary response
    /\ (stage' = "followup" /\ stage # "followup") =>
          /\ stage \in {"primary", "primary_retry"} /\ ret.ok
          /\ raw' = ret.val
    /\ stage = "followup" =>
          \* the buffer changes only by a received chunk appended at its end
          /\ stage' # "done" =>
                \/ raw' = raw
                \/ PollChunk /\ raw' = raw \o ret.val
          /\ (PollChunk /\ stage' # "done") => raw' = raw \o ret.val
          /\ (PollMissed \/ io = "loop") => raw' = raw /\ result' = Pending
          \* its failures
          /\ stage' = "done" =>
                /\ result'.kind = "err"
                /\ result'.err \in {"ResponseTooLarge", "Transport"}
                /\ io = "ret" /\ pos = "rd"
                /\ IF ret.ok THEN Len(raw) + Len(ret.val) > cfg.max_response_len
                   ELSE result' = ReturnErr(ret)
    \* request() parses what the collector returned
    /\ (stage = "finish" /\ result'.kind = "ok") => result'.raw = raw

\* C27: the follow-up collector only appends: its buffer starts as the primary
\* response and changes only by a received chunk appended at its end, so what
\* it returns is the primary response followed by the chunks in arrival order,
\* and the primary response alone when no chunk arrived before the deadline;
\* timed-out polls are absorbed, and it fails only with ResponseTooLarge or
\* Transport.
C27_CollectorOnlyAppends == [][C27_Step]_vars

C27_TwoChunksAppended ==
    /\ stage = "finish" /\ raw = HI \o RX_URC_200 \o HI


(***************************************************************************)
(* The cap of the save-and-wait accumulation.                              *)
(***************************************************************************)
\* a save-and-wait poll has just returned a non-empty chunk
SavePolled == stage = "SAVE" /\ io = "ret" /\ pos = "rd" /\ ret.ok /\ ret.val # <<>>

\* the chunk does not fit the accumulation
LeftOut == Len(merged) + Len(ret.val) > cfg.max_response_len

\* s holds a marker the save-and-wait step ends on
ErrorMarked(s) == Contains(s, <<69, 82, 82, 58>>) \/ Contains(s, <<69, 82, 82, 79, 82>>)
FailMarked(s) == Contains(s, HTTP_FAIL_NOTE)
ReadyMarked(s) == Contains(s, <<70, 83, 64, 72, 84, 84, 80, 32, 79, 75, 58>>)

C28_Step ==
    \* a chunk over the cap is left out, and polling goes on
    /\ (SavePolled /\ LeftOut) =>
          /\ merged' = merged /\ result' = Pending
          /\ stage' = "SAVE" /\ io' = "loop"
    \* the retained accumulation is classified, not the chunk
    /\ SavePolled =>
          \E acc \in {Retained} :
          \E e \in {ErrorMarked(acc)}, f \in {FailMarked(acc)}, r \in {ReadyMarked(acc)} :
             /\ ~LeftOut => acc = merged \o ret.val
             /\ IF e THEN result' = ReturnErr(Err("AtRejected")) /\ stage' = "done"
                ELSE IF f THEN result' = ReturnErr(Err("BadResponse")) /\ stage' = "done"
                ELSE IF r THEN stage' = "settle" /\ result' = Pending
                ELSE /\ merged' = acc /\ result' = Pending
                     /\ stage' = "SAVE" /\ io' = "loop"
    \* the other way the step ends, a failed write or read aside
    /\ (stage = "SAVE" /\ stage' # "SAVE" /\ ~SavePolled /\ (io # "ret" \/ ret.ok)) =>
          /\ io = "loop" /\ now >= deadline
          /\ result' = ReturnErr(Err("Timeout"))

\* C28: in save-and-wait-ready a polled chunk that would take the accumulation
\* over max_response_len is left out without ResponseTooLarge and polling goes
\* on; a marker that occurs only in such a chunk is never classified, so that
\* (a failed write or read aside) the step ends only on a marker in the
\* retained accumulation or with Timeout at the deadline; a marker split across
\* two retained chunks is recognised in the merged accumulation.
C28_SaveCapLeavesChunkOut == [][C28_Step]_vars

C28_ErrorMarkerLeftOut ==
    /\ SavePolled /\ LeftOut
    /\ merged # <<>> /\ ErrorMarked(ret.val)
    /\ Len(ret.val) <= cfg.max_response_len


(***************************************************************************)
(* A request whose headers cannot be encoded.                              *)
(***************************************************************************)
\* a header has no name, or the encoded line is longer than 256 bytes
HeaderEncodingFails ==
    \/ \E i \in 1..Len(req.headers) : Len(req.headers[i].name) = 0
    \/ Len(Terminated(HeadItems(req))) > 256

\* the escape (and the probe) and the mode, method and URL lines
ModeMethodUrl ==
    LET lines == ConfigScript(cfg, req, 3)
    IN {ESCAPE \o lines, ESCAPE \o PROBE \o lines}

C29_Step ==
    (/\ cfg.channel \in 1..4 /\ Len(req.url) > 0 /\ cfg.max_response_len > 0
     /\ HeaderEncodingFails) =>
       /\ result'.kind # "ok"
       /\ (result'.err = "InvalidConfig" /\ result.kind = "pending") =>
             /\ stage = "HTPURL" /\ Acked
             /\ wire \in ModeMethodUrl /\ wire' = wire
       /\ (stage = "HTPURL" /\ Acked) =>
             result' = ReturnErr(InvalidConfig("head_line")) /\ stage' = "done"
       /\ stage' \in {"start", "enter", "probe", "WKMOD", "HTPTP", "HTPURL", "done"}
       /\ \A pat \in {AT_HTPHD, AT_HTPPK, AT_HTPTIM, AT_HTPDT, AT_S} :
             ~Contains(wire', pat)
       /\ \E full \in ModeMethodUrl : starts_with(full, wire')

\* C29: a request whose header encoding fails (an empty header name, or an
\* encoded line longer than 256 bytes) returns InvalidConfig only after command
\* mode was acquired and the mode, method and URL commands were sent and
\* acknowledged; the header, response-filter, timeout and data-type commands,
\* the save command and the payload are never written.
C29_HeaderFailureAfterUrl == [][C29_Step]_vars

C29_LongHeaderRejectedAfterUrl ==
    /\ stage = "done" /\ result.err = "InvalidConfig"
    /\ Len(Terminated(HeadItems(req))) > 256
    /\ wire \in ModeMethodUrl


(***************************************************************************)
(* Responses that are not a success.                                       *)
(***************************************************************************)
C30_Step ==
    stage = "finish" =>
       \E status \in {parse_status_code(raw)} :
          /\ result'.kind = "err" => result'.err = "BodyMissing"
          /\ (~status.some \/ status.v < 200 \/ status.v > 299) =>
                /\ result'.kind = "ok"
                /\ result'.status_code = status /\ result'.raw = raw
          /\ result'.kind = "err" =>
                /\ status.some /\ status.v \in 200..299
                /\ cfg.require_body_on_success

\* C30: the body-required policy is evaluated only for a parsed 2xx status:
\* when no status code can be parsed from the accumulated bytes (an empty
\* primary frame included) or the status is outside 200..=299, request()
\* returns Ok with that status and the raw bytes, never BodyMissing or
\* BadResponse, whether or not a body is present.
C30_PolicyOnlyForSuccess == [][C30_Step]_vars

C30_EmptyFrameReturnedOk ==
    /\ stage = "done" /\ cfg.require_body_on_success
    /\ result = ReturnOk(None, <<>>) /\ read_called /\ Len(PayloadRegion) > 0

=============================================================================
